---- MODULE Spec2Model ----
(***************************************************************************)
(* PlateKit: the vector contour geometry engine (src/lib/tracing.ts), the  *)
(* boolean-union wrapper (src/lib/pathfinder.ts) and the shape-builder     *)
(* gesture of the canvas component (Canvas.svelte).                        *)
(*                                                                         *)
(* Numbers.  The program computes in IEEE doubles.  The model computes in  *)
(* exact rationals <<n, d>> (d > 0, lowest terms).  Square roots are taken *)
(* only of perfect squares, so the geometry inputs are the paths whose     *)
(* edges have rational length; on those the double results agree with the *)
(* exact ones up to rounding.  cos/sin/atan2 have no rational values: an   *)
(* arc-join point is kept as a term naming its centre, radius, end points  *)
(* and step, and the number of steps is decided by comparing the cosine of *)
(* the swept angle with tabulated cosines.                                 *)
(***************************************************************************)
EXTENDS Integers, Sequences, FiniteSets, TLC

(***************************************************************************)
(* Rational arithmetic                                                     *)
(***************************************************************************)
RECURSIVE Gcd(_, _)
Gcd(a, b) == IF b = 0 THEN a ELSE Gcd(b, a % b)

IAbs(n) == IF n < 0 THEN -n ELSE n

R(n, d) ==
    LET s == IF d < 0 THEN -1 ELSE 1
        g == Gcd(IAbs(n), IAbs(d))
    IN  <<(s * n) \div g, (s * d) \div g>>

I(n) == <<n, 1>>

RZero == I(0)

RAdd(a, b) == R(a[1] * b[2] + b[1] * a[2], a[2] * b[2])
RNeg(a) == <<-a[1], a[2]>>
RSub(a, b) == RAdd(a, RNeg(b))
RMul(a, b) == R(a[1] * b[1], a[2] * b[2])
RDiv(a, b) == RMul(a, IF b[1] < 0 THEN <<-b[2], -b[1]>> ELSE <<b[2], b[1]>>)
RLt(a, b) == a[1] * b[2] < b[1] * a[2]
RLe(a, b) == a[1] * b[2] <= b[1] * a[2]
RAbs(a) == <<IAbs(a[1]), a[2]>>
RSq(a) == RMul(a, a)

\* Math.sqrt on a perfect square (the only arguments the model passes).
RECURSIVE SqrtBetween(_, _, _)
SqrtBetween(n, lo, hi) ==
    IF lo = hi THEN lo
    ELSE LET mid == (lo + hi + 1) \div 2
         IN  IF mid * mid <= n THEN SqrtBetween(n, mid, hi) ELSE SqrtBetween(n, lo, mid - 1)
ISqrt(n) == SqrtBetween(n, 0, IF n < 46340 THEN n ELSE 46340)
IsSquare(n) == ISqrt(n) * ISqrt(n) = n
RSqrt(a) == <<ISqrt(a[1]), ISqrt(a[2])>>
RIsSquare(a) == IsSquare(a[1]) /\ IsSquare(a[2])

\* Math.sqrt(a) <= m, Math.sqrt(a) >= m and Math.sqrt(a) < m, without the root.
SqrtLe(a, m) == RLe(RZero, m) /\ RLe(a, RSq(m))
SqrtGe(a, m) == RLe(m, RZero) \/ RLe(RSq(m), a)
SqrtLt(a, m) == ~SqrtGe(a, m)

(***************************************************************************)
(* Points and paths (types.ts: VectorPath)                                 *)
(***************************************************************************)
Point(x, y) == [x |-> x, y |-> y]
Pt(i, j) == Point(I(i), I(j))

VectorPath(id, points, closed) == [id |-> id, points |-> points, closed |-> closed]

\* A point with rational coordinates (not an arc-join or blended term).
IsNum(p) == DOMAIN p = {"x", "y"}

DistSq(p, q) == RAdd(RSq(RSub(p.x, q.x)), RSq(RSub(p.y, q.y)))

RECURSIVE Flatten(_)
Flatten(ss) == IF ss = <<>> THEN <<>> ELSE Head(ss) \o Flatten(Tail(ss))

RECURSIVE RSum(_)
RSum(s) == IF s = <<>> THEN RZero ELSE RAdd(Head(s), RSum(Tail(s)))

(***************************************************************************)
(* Point reduction (tracing.ts: reducePoints)                              *)
(***************************************************************************)
\* A walk that keeps every point: the variant against which C11 is checked.
ReduceWalkKeepsAll(kept, rest, tolerance) == kept \o rest

\* The walk of lines 206-222: a point is kept when it is at least `tolerance`
\* away from the last kept point.
RECURSIVE ReduceWalk(_, _, _)
ReduceWalk(kept, rest, tolerance) ==
    IF rest = <<>> THEN kept
    ELSE LET current == Head(rest)
             previous == kept[Len(kept)]
         IN  IF SqrtGe(DistSq(current, previous), tolerance)
             THEN ReduceWalk(Append(kept, current), Tail(rest), tolerance)
             ELSE ReduceWalk(kept, Tail(rest), tolerance)

\* A seam test that drops the first kept point instead of the last: the
\* variant against which C12 is checked.
ReduceSeamDropsFirst(closed, reduced, tolerance) ==
    IF closed /\ Len(reduced) > 2
       /\ SqrtLt(DistSq(reduced[Len(reduced)], reduced[1]), tolerance)
    THEN Tail(reduced)
    ELSE reduced

\* Lines 224-236: on a closed path the last kept point is dropped when it is
\* closer than `tolerance` to the first.
ReduceSeam(closed, reduced, tolerance) ==
    IF closed /\ Len(reduced) > 2
       /\ SqrtLt(DistSq(reduced[Len(reduced)], reduced[1]), tolerance)
    THEN SubSeq(reduced, 1, Len(reduced) - 1)
    ELSE reduced

\* reducePoints without the test of lines 239-241: the variant against which
\* C13 is checked.
reducePointsNoMinimum(path, tolerance) ==
    IF Len(path.points) <= 2 THEN path
    ELSE [path EXCEPT !.points =
              ReduceSeam(path.closed,
                         ReduceWalk(<<path.points[1]>>, Tail(path.points), tolerance),
                         tolerance)]

\* reducePoints with an early return on closed = false: the variant against
\* which C10 is checked.
reducePointsClosedOnly(path, tolerance) ==
    IF Len(path.points) <= 2 \/ ~path.closed THEN path
    ELSE LET reduced == ReduceSeam(path.closed,
                                   ReduceWalk(<<path.points[1]>>, Tail(path.points), tolerance),
                                   tolerance)
         IN  IF Len(reduced) < 3 THEN path
             ELSE [path EXCEPT !.points = reduced]

\* Lines 198-247
reducePoints(path, tolerance) ==
    IF Len(path.points) <= 2 THEN path
    ELSE LET reduced == ReduceSeam(path.closed,
                                   ReduceWalk(<<path.points[1]>>, Tail(path.points), tolerance),
                                   tolerance)
         IN  IF Len(reduced) < 3 THEN path
             ELSE [path EXCEPT !.points = reduced]

(***************************************************************************)
(* Offset engine (tracing.ts: offsetVectorPath and its helpers)            *)
(***************************************************************************)
\* Lines 261-265: sum of (x[j]-x[i]) * (y[j]+y[i]) over the cyclic sequence.
SignedArea(points) ==
    LET n == Len(points)
        term(i) == LET j == (i % n) + 1
                   IN  RMul(RSub(points[j].x, points[i].x), RAdd(points[j].y, points[i].y))
    IN  RSum([i \in 1..n |-> term(i)])

\* A winding test that takes a zero area for clockwise: the variant against
\* which C17 is checked.
IsClockwiseOrFlat(points) == RLe(RZero, SignedArea(points))

\* Line 269
IsClockwise(points) == RLt(RZero, SignedArea(points))

\* A direction that does not look at the winding: the variant against which
\* C7 is checked.
DirectionIgnoresWinding(points) == 1

\* Line 270
Direction(points) == IF IsClockwise(points) THEN 1 ELSE -1

\* Line 283: edgeLen < 1e-6.  1e-12 is below every positive rational of the
\* model (denominators stay under 2^31), so the squared length is compared with 0.
DegenerateEdge(current, next) == DistSq(current, next)[1] <= 0

\* Lines 286-289: the unit edge vector turned by a quarter, times direction.
EdgeNormal(current, next, direction) ==
    LET edgeLen == RSqrt(DistSq(current, next))
        unit == Point(RDiv(RSub(next.x, current.x), edgeLen),
                      RDiv(RSub(next.y, current.y), edgeLen))
    IN  Point(RMul(RNeg(unit.y), I(direction)), RMul(unit.x, I(direction)))

\* Lines 292-301: both end points of the edge moved by normal * offsetDistance.
OffsetSegment(current, next, direction, offsetDistance) ==
    LET normal == EdgeNormal(current, next, direction)
    IN  [start |-> Point(RAdd(current.x, RMul(normal.x, offsetDistance)),
                         RAdd(current.y, RMul(normal.y, offsetDistance))),
         end   |-> Point(RAdd(next.x, RMul(normal.x, offsetDistance)),
                         RAdd(next.y, RMul(normal.y, offsetDistance)))]

\* Lines 275-302: one segment per non-degenerate edge, in edge order.
OffsetSegments(points, offsetDistance) ==
    LET n == Len(points)
        direction == Direction(points)
        seg(i) == LET current == points[i]
                      next == points[(i % n) + 1]
                  IN  IF DegenerateEdge(current, next) THEN <<>>
                      ELSE <<OffsetSegment(current, next, direction, offsetDistance)>>
    IN  Flatten([i \in 1..n |-> seg(i)])

\* Lines 366-382.  Math.abs(denom) < 1e-10 is denom = 0 on the model's rationals.
\* The result is <<>> for null, <<point>> otherwise.
lineIntersection(p1, p2, p3, p4) ==
    LET denom == RSub(RMul(RSub(p1.x, p2.x), RSub(p3.y, p4.y)),
                      RMul(RSub(p1.y, p2.y), RSub(p3.x, p4.x)))
        t == RDiv(RSub(RMul(RSub(p1.x, p3.x), RSub(p3.y, p4.y)),
                       RMul(RSub(p1.y, p3.y), RSub(p3.x, p4.x))), denom)
    IN  IF denom = RZero THEN <<>>
        ELSE <<Point(RAdd(p1.x, RMul(t, RSub(p2.x, p1.x))),
                     RAdd(p1.y, RMul(t, RSub(p2.y, p1.y))))>>

\* Math.atan2(0, 0) is 0: a zero vector has the direction of the x axis.
ArcDir(p, center) ==
    LET v == Point(RSub(p.x, center.x), RSub(p.y, center.y))
    IN  IF v.x = RZero /\ v.y = RZero THEN Pt(1, 0) ELSE v

\* cos(k/3)^2 in thousandths, with the sign of cos(k/3), for k = 1..9, and
\* cos(0.1)^2 in thousandths: the angles at which Math.ceil(|deltaAngle| * 3)
\* steps up, and the 0.1 rad cut of line 407.
CosThirds ==
    <<[s |-> 1, q |-> 893], [s |-> 1, q |-> 618], [s |-> 1, q |-> 292],
      [s |-> 1, q |-> 55], [s |-> -1, q |-> 9], [s |-> -1, q |-> 173],
      [s |-> -1, q |-> 477], [s |-> -1, q |-> 790], [s |-> -1, q |-> 980]>>

CosTenth == [s |-> 1, q |-> 990]

\* cos(angle between u and v) >= c, where c has sign c.s and c^2 = c.q / 1000.
CosGe(u, v, c) ==
    LET dot == RAdd(RMul(u.x, v.x), RMul(u.y, v.y))
        nn == RMul(RAdd(RSq(u.x), RSq(u.y)), RAdd(RSq(v.x), RSq(v.y)))
        cc == RMul(R(c.q, 1000), nn)
    IN  IF c.s >= 0 THEN RLe(RZero, dot) /\ RLe(cc, RSq(dot))
        ELSE RLe(RZero, dot) \/ RLe(RSq(dot), cc)

\* Lines 394-404: |deltaAngle|, the shorter arc between the two directions, is
\* the angle between them; Math.ceil(|deltaAngle| * 3) is the least k with
\* angle <= k/3 (10 for the angles above 3 rad, pi included).
CeilAngleTimes3(u, v) ==
    IF \E k \in 1..9 : CosGe(u, v, CosThirds[k])
    THEN CHOOSE k \in 1..9 : CosGe(u, v, CosThirds[k])
                              /\ \A j \in 1..(k - 1) : ~CosGe(u, v, CosThirds[j])
    ELSE 10

MinArcSteps == 2

\* An arc that also emits the point at i = steps, the end of the arc: the
\* variant against which C23 is checked.
createArcJoinToEnd(end1, start2, center, radius) ==
    LET u == ArcDir(end1, center)
        v == ArcDir(start2, center)
        ceil3 == CeilAngleTimes3(u, v)
        steps == IF ceil3 > MinArcSteps THEN ceil3 ELSE MinArcSteps
    IN  IF CosGe(u, v, CosTenth) THEN <<end1>>
        ELSE [i \in 1..steps |->
                [arc |-> [center |-> center, radius |-> radius, from |-> end1,
                          to |-> start2, i |-> i, steps |-> steps]]]

\* Lines 387-424.  An arc point is the term [arc |-> ...]: the point of the
\* circle of `radius` around `center` at angle1 + deltaAngle * i / steps.
createArcJoin(end1, start2, center, radius) ==
    LET u == ArcDir(end1, center)
        v == ArcDir(start2, center)
        ceil3 == CeilAngleTimes3(u, v)
        steps == IF ceil3 > MinArcSteps THEN ceil3 ELSE MinArcSteps
    IN  IF CosGe(u, v, CosTenth) THEN <<end1>>
        ELSE [i \in 1..(steps - 1) |->
                [arc |-> [center |-> center, radius |-> radius, from |-> end1,
                          to |-> start2, i |-> i, steps |-> steps]]]

MitreLimitFactor == 3

\* A join that is always the arc, never the mitre point: the variant against
\* which C6 is checked.
SegmentJoinAlwaysArc(points, segs, i, offsetDistance) ==
    createArcJoin(segs[i].end, segs[(i % Len(segs)) + 1].start,
                  points[(i % Len(points)) + 1], offsetDistance)

\* Lines 322-351: what follows currentSeg.start for segment i (1-based): the
\* mitre point when the lines meet within offsetDistance * 3 of
\* points[(i + 1) % points.length] (0-based i), the arc join otherwise.
SegmentJoin(points, segs, i, offsetDistance) ==
    LET currentSeg == segs[i]
        nextSeg == segs[(i % Len(segs)) + 1]
        intersection == lineIntersection(currentSeg.start, currentSeg.end,
                                         nextSeg.start, nextSeg.end)
        originalVertex == points[(i % Len(points)) + 1]
        maxDistance == RMul(offsetDistance, I(MitreLimitFactor))
    IN  IF intersection # <<>>
           /\ SqrtLe(DistSq(intersection[1], originalVertex), maxDistance)
        THEN intersection
        ELSE createArcJoin(currentSeg.end, nextSeg.start, originalVertex, offsetDistance)

\* Lines 307-352: the start of every segment followed by its join.
JoinSegments(points, segs, offsetDistance) ==
    Flatten([i \in 1..Len(segs) |->
                <<segs[i].start>> \o SegmentJoin(points, segs, i, offsetDistance)])

OffsetPoints(points, offsetDistance) ==
    JoinSegments(points, OffsetSegments(points, offsetDistance), offsetDistance)

\* Lines 441-442: current + (prev + next - 2 * current) * smoothingFactor * 0.5,
\* smoothingFactor = 0.3.  A blend that involves an arc point is kept as a term.
SmoothPoint(prev, current, next) ==
    IF IsNum(prev) /\ IsNum(current) /\ IsNum(next)
    THEN LET w == R(3, 20)
             sx == RAdd(current.x, RMul(RSub(RAdd(prev.x, next.x), RMul(I(2), current.x)), w))
             sy == RAdd(current.y, RMul(RSub(RAdd(prev.y, next.y), RMul(I(2), current.y)), w))
         IN  Point(sx, sy)
    ELSE [blend |-> <<prev, current, next>>]

\* Lines 429-448.
smoothOffsetPath(points) ==
    LET n == Len(points)
    IN  IF n < 3 THEN points
        ELSE [i \in 1..n |-> SmoothPoint(points[((i + n - 2) % n) + 1], points[i],
                                         points[(i % n) + 1])]

\* A result that does not spread the input path, so that its closed flag is
\* always true: the variant against which C18 is checked.
OffsetBodyClosesPath(path, offsetDistance) ==
    LET points == path.points
        offsetSegments == OffsetSegments(points, offsetDistance)
        offsetPoints == JoinSegments(points, offsetSegments, offsetDistance)
    IN  IF offsetSegments = <<>> THEN [ret |-> path, locals |-> <<>>]
        ELSE [ret |-> [id |-> path.id, closed |-> TRUE,
                       points |-> smoothOffsetPath(offsetPoints)],
              locals |-> <<>>]

\* Lines 258-360: offsetVectorPath past its first early return, its result
\* and its locals (none when it returns at line 304).
OffsetBody(path, offsetDistance) ==
    LET points == path.points
        signedArea == SignedArea(points)
        offsetSegments == OffsetSegments(points, offsetDistance)
        offsetPoints == JoinSegments(points, offsetSegments, offsetDistance)
    IN  IF offsetSegments = <<>> THEN [ret |-> path, locals |-> <<>>]
        ELSE [ret |-> [path EXCEPT !.points = smoothOffsetPath(offsetPoints)],
              locals |-> <<[signedArea |-> signedArea,
                            isClockwise |-> RLt(RZero, signedArea),
                            direction |-> Direction(points),
                            offsetSegments |-> offsetSegments,
                            offsetPoints |-> offsetPoints]>>]

\* offsetVectorPath without the test offsetDistance === 0 and without the
\* test points.length < 3 of line 254: the variants against which C8 and C9
\* are checked.
OffsetRunNoZeroCheck(path, offsetDistance) ==
    IF Len(path.points) < 3
    THEN [ret |-> path, locals |-> <<>>]
    ELSE OffsetBody(path, offsetDistance)

OffsetRunNoLengthCheck(path, offsetDistance) ==
    IF offsetDistance = RZero
    THEN [ret |-> path, locals |-> <<>>]
    ELSE OffsetBody(path, offsetDistance)

\* Lines 253-361: the run of offsetVectorPath, with the early return of lines
\* 254-256.
OffsetRun(path, offsetDistance) ==
    IF Len(path.points) < 3 \/ offsetDistance = RZero
    THEN [ret |-> path, locals |-> <<>>]
    ELSE OffsetBody(path, offsetDistance)

offsetVectorPath(path, offsetDistance) == OffsetRun(path, offsetDistance).ret

(***************************************************************************)
(* Hit-testing (Canvas.svelte)                                             *)
(***************************************************************************)
\* pointInPolygon: the ray cast of the loop over (i, j), j the point before i
\* cyclically; `inside` is flipped once per crossed edge.
RayCrosses(point, pi, pj) ==
    /\ RLt(point.y, pi.y) # RLt(point.y, pj.y)
    /\ RLt(point.x, RAdd(RDiv(RMul(RSub(pj.x, pi.x), RSub(point.y, pi.y)),
                              RSub(pj.y, pi.y)), pi.x))

pointInPolygon(point, polygon) ==
    LET n == Len(polygon)
        crossed == {i \in 1..n : RayCrosses(point, polygon[i], polygon[((i + n - 2) % n) + 1])}
    IN  Cardinality(crossed) % 2 = 1

\* lineSegmentIntersection: <<>> for null, <<point>> otherwise.
lineSegmentIntersection(p1, p2, p3, p4) ==
    LET denom == RSub(RMul(RSub(p1.x, p2.x), RSub(p3.y, p4.y)),
                      RMul(RSub(p1.y, p2.y), RSub(p3.x, p4.x)))
        t == RDiv(RSub(RMul(RSub(p1.x, p3.x), RSub(p3.y, p4.y)),
                       RMul(RSub(p1.y, p3.y), RSub(p3.x, p4.x))), denom)
        u == RNeg(RDiv(RSub(RMul(RSub(p1.x, p2.x), RSub(p1.y, p3.y)),
                            RMul(RSub(p1.y, p2.y), RSub(p1.x, p3.x))), denom))
    IN  IF denom = RZero THEN <<>>
        ELSE IF RLe(RZero, t) /\ RLe(t, I(1)) /\ RLe(RZero, u) /\ RLe(u, I(1))
        THEN <<Point(RAdd(p1.x, RMul(t, RSub(p2.x, p1.x))),
                     RAdd(p1.y, RMul(t, RSub(p2.y, p1.y))))>>
        ELSE <<>>

\* findSelfIntersections: segments i and j are points[i], points[i+1] with
\* 0 <= i < j < points.length - 1 (0-based), j >= i + 2, the pair
\* (0, points.length - 2) left out.  seg1 and seg2 keep the 0-based indices.
SegmentPairs(n) ==
    {ij \in (0..(n - 2)) \X (0..(n - 2)) :
        /\ ij[2] >= ij[1] + 2
        /\ ~(ij[1] = 0 /\ ij[2] = n - 2)}

findSelfIntersections(points) ==
    LET n == Len(points)
        hit(ij) == lineSegmentIntersection(points[ij[1] + 1], points[ij[1] + 2],
                                           points[ij[2] + 1], points[ij[2] + 2])
    IN  {[x |-> hit(ij)[1].x, y |-> hit(ij)[1].y, seg1 |-> ij[1], seg2 |-> ij[2]] :
            ij \in {p \in SegmentPairs(n) : hit(p) # <<>>}}

\* isPointInIntersectionLoop: the loop is the intersection, the points
\* seg1 + 1 .. seg2 (0-based), and the intersection again.
isPointInIntersectionLoop(point, intersection, points) ==
    LET x == Point(intersection.x, intersection.y)
        loopPoints == <<x>> \o SubSeq(points, intersection.seg1 + 2, intersection.seg2 + 1)
                          \o <<x>>
    IN  pointInPolygon(point, loopPoints)

checkPointInSelfIntersectionLoops(point, renderedPoints) ==
    \E intersection \in findSelfIntersections(renderedPoints) :
        isPointInIntersectionLoop(point, intersection, renderedPoints)

\* The render transform of checkPointInContourAndLoops: image pixels to sheet
\* coordinates, p / (naturalWidth || 1) * width + x.
RenderPoint(p, layer) ==
    Point(RAdd(RMul(RDiv(p.x, layer.naturalWidth), layer.width), layer.x),
          RAdd(RMul(RDiv(p.y, layer.naturalHeight), layer.height), layer.y))

checkPointInContourAndLoops(point, contour, layer) ==
    IF Len(contour.points) < 3 THEN [inMainShape |-> FALSE, inLoop |-> FALSE]
    ELSE LET renderedPoints == [i \in 1..Len(contour.points) |->
                                    RenderPoint(contour.points[i], layer)]
         IN  [inMainShape |-> pointInPolygon(point, renderedPoints),
              inLoop |-> checkPointInSelfIntersectionLoops(point, renderedPoints)]

(***************************************************************************)
(* State                                                                   *)
(***************************************************************************)
VARIABLES
    geomCall,            \* the geometry call under check: function, path, argument
    geomResult,          \* <<>> before the call, <<result>> after it
    layers,              \* +page.svelte: the layer list
    selectedLayerId,     \* +page.svelte: NoLayer for null
    isShapeToolActive,   \* +page.svelte
    selectionState,      \* Canvas.svelte: selectionState.selectedLayerIds
    isDragging,          \* Canvas.svelte: panning
    isDraggingLayer,
    isResizing,
    isRotating,
    resizeHandle,        \* NoHandle for null
    isShapeBuilding,
    shapeBuildPath,
    highlightedContours, \* the Set<number>, in insertion order, 0-based indices
    paperScope,          \* pathfinder.ts: TRUE once paperScope is not null
    buttons,             \* the pointer buttons held down
    uuids,               \* how many values crypto.randomUUID() has returned
    uniteCalls,          \* history: the calls of unite since the latest stroke
                         \* of the shape tool started, each with its arguments,
                         \* its outcome and the layer offset at the call
    lastRelease          \* history: <<the stroke path and the touched set as
                         \* handleShapeBuildMouseUp found them>> when the latest
                         \* step was a release that ended a stroke, <<>> otherwise

geomVars == <<geomCall, geomResult>>

pageVars == <<layers, selectedLayerId, isShapeToolActive>>

canvasVars ==
    <<selectionState, isDragging, isDraggingLayer, isResizing, isRotating, resizeHandle,
      isShapeBuilding, shapeBuildPath, highlightedContours, paperScope, buttons, uuids,
      uniteCalls, lastRelease>>

vars == <<geomVars, pageVars, canvasVars>>

NoLayer == [kind |-> "none", uuid |-> 0]
NoHandle == "none"
NoCall == [fn |-> "none"]

\* The state of the page and of the canvas after construction
\* (+page.svelte 356-357, 471; Canvas.svelte 33-65; pathfinder.ts 5).
Constructed ==
    /\ layers = <<>>
    /\ selectedLayerId = NoLayer
    /\ isShapeToolActive = FALSE
    /\ selectionState = <<>>
    /\ isDragging = FALSE
    /\ isDraggingLayer = FALSE
    /\ isResizing = FALSE
    /\ isRotating = FALSE
    /\ resizeHandle = NoHandle
    /\ isShapeBuilding = FALSE
    /\ shapeBuildPath = <<>>
    /\ highlightedContours = <<>>
    /\ paperScope = FALSE
    /\ buttons = {}
    /\ uuids = 0
    /\ uniteCalls = <<>>
    /\ lastRelease = <<>>

(***************************************************************************)
(* Geometry calls: inputs                                                  *)
(***************************************************************************)
MaxPoints == 4

\* Coordinates of the input points.  The pairs 6, 8 give edges of length 10,
\* so that paths with slanted edges of rational length exist.
CoordsX == {0, 6, 10}
CoordsY == {0, 8, 10}
GridPoints == {Pt(x, y) : x \in CoordsX, y \in CoordsY}

RationalEdge(p, q) == RIsSquare(DistSq(p, q))

\* The point sequences of length n whose consecutive edges have rational length.
RECURSIVE EdgePaths(_)
EdgePaths(n) ==
    IF n = 0 THEN {<<>>}
    ELSE IF n = 1 THEN {<<p>> : p \in GridPoints}
    ELSE UNION {{Append(s, p) : p \in {q \in GridPoints : RationalEdge(s[Len(s)], q)}} :
                    s \in EdgePaths(n - 1)}

\* ... and whose closing edge has, too: the inputs of offsetVectorPath.
OffsetInputs ==
    UNION {{s \in EdgePaths(n) : n < 3 \/ RationalEdge(s[n], s[1])} : n \in 0..MaxPoints}

Distances == {I(-5), I(0), I(2)}
Tolerances == {I(0), R(1, 2), I(7)}

PathId == "path-1"

OffsetCalls ==
    {[fn |-> "offsetVectorPath", path |-> VectorPath(PathId, pts, c), arg |-> d] :
        pts \in OffsetInputs, c \in BOOLEAN, d \in Distances}

ReduceCalls ==
    {[fn |-> "reducePoints", path |-> VectorPath(PathId, pts, c), arg |-> t] :
        pts \in OffsetInputs, c \in BOOLEAN, t \in Tolerances}

\* The arguments of createArcJoin: a centre, two points around it (at angles
\* of 0, 0.05, 0.28, 0.64, 1.57, 2.21 and 3.14 rad from the first) and a radius.
ArcCenters == {Pt(0, 0), Pt(6, 8)}
ArcOffsets == {Pt(5, 0), Pt(4, 3), Pt(3, 4), Pt(0, 5), Pt(-3, 4), Pt(-5, 0), Pt(20, 0), Pt(20, 1)}
ArcRadii == {I(5), I(-5)}

ArcEnd(center, offset) == Point(RAdd(center.x, offset.x), RAdd(center.y, offset.y))

ArcCalls ==
    {[fn |-> "createArcJoin", end1 |-> ArcEnd(c, u), start2 |-> ArcEnd(c, v),
      center |-> c, radius |-> r] :
        c \in ArcCenters, u \in ArcOffsets, v \in ArcOffsets, r \in ArcRadii}

(***************************************************************************)
(* Geometry calls: the specification that applies offsetVectorPath and     *)
(* reducePoints to every input                                             *)
(***************************************************************************)
InitPath ==
    /\ \/ geomCall \in OffsetCalls
       \/ geomCall \in ReduceCalls
       \/ geomCall \in ArcCalls
    /\ geomResult = <<>>
    /\ Constructed

CallOffset ==
    /\ geomCall.fn = "offsetVectorPath"
    /\ geomResult = <<>>
    /\ geomResult' = <<OffsetRun(geomCall.path, geomCall.arg)>>
    /\ UNCHANGED <<geomCall, pageVars, canvasVars>>

CallReduce ==
    /\ geomCall.fn = "reducePoints"
    /\ geomResult = <<>>
    /\ geomResult' = <<[ret |-> reducePoints(geomCall.path, geomCall.arg), locals |-> <<>>]>>
    /\ UNCHANGED <<geomCall, pageVars, canvasVars>>

CallArcJoin ==
    /\ geomCall.fn = "createArcJoin"
    /\ geomResult = <<>>
    /\ geomResult' = <<[ret |-> createArcJoin(geomCall.end1, geomCall.start2,
                                              geomCall.center, geomCall.radius),
                        locals |-> <<>>]>>
    /\ UNCHANGED <<geomCall, pageVars, canvasVars>>

NextPath == CallOffset \/ CallReduce \/ CallArcJoin

SpecPath == InitPath /\ [][NextPath]_vars

(***************************************************************************)
(* Geometry calls: the specification that applies findSelfIntersections    *)
(* and checkPointInContourAndLoops                                         *)
(***************************************************************************)
HitCoords == {0, 5, 10}
HitGrid == {Pt(x, y) : x \in HitCoords, y \in HitCoords}
HitCorners == {Pt(0, 0), Pt(10, 0), Pt(10, 10), Pt(0, 10)}

RECURSIVE PathsOver(_, _)
PathsOver(S, n) ==
    IF n = 0 THEN {<<>>}
    ELSE UNION {{Append(s, p) : p \in S} : s \in PathsOver(S, n - 1)}

\* The layers of the hit-test calls: image pixels equal to sheet units (the
\* identity render transform), and an image shown at twice its size, moved.
IdentityLayer ==
    [naturalWidth |-> I(10), naturalHeight |-> I(10), width |-> I(10), height |-> I(10),
     x |-> I(0), y |-> I(0)]
ScaledLayer ==
    [naturalWidth |-> I(10), naturalHeight |-> I(10), width |-> I(20), height |-> I(20),
     x |-> I(5), y |-> I(0)]

HitSamples == {Pt(2, 5), Pt(8, 5), Pt(5, 2), Pt(5, 8), Pt(9, 10), Pt(21, 10)}

IntersectCalls ==
    {[fn |-> "findSelfIntersections", path |-> VectorPath(PathId, pts, TRUE)] :
        pts \in UNION {PathsOver(HitGrid, n) : n \in 3..MaxPoints}}

HitCalls ==
    {[fn |-> "checkPointInContourAndLoops", path |-> VectorPath(PathId, pts, TRUE),
      point |-> p, layer |-> l] :
        pts \in UNION {PathsOver(HitCorners, n) : n \in 0..MaxPoints},
        p \in HitSamples, l \in {IdentityLayer, ScaledLayer}}

InitHit ==
    /\ \/ geomCall \in IntersectCalls
       \/ geomCall \in HitCalls
    /\ geomResult = <<>>
    /\ Constructed

CallFindSelfIntersections ==
    /\ geomCall.fn = "findSelfIntersections"
    /\ geomResult = <<>>
    /\ geomResult' = <<findSelfIntersections(geomCall.path.points)>>
    /\ UNCHANGED <<geomCall, pageVars, canvasVars>>

CallHitTest ==
    /\ geomCall.fn = "checkPointInContourAndLoops"
    /\ geomResult = <<>>
    /\ geomResult' = <<checkPointInContourAndLoops(geomCall.point, geomCall.path,
                                                   geomCall.layer)>>
    /\ UNCHANGED <<geomCall, pageVars, canvasVars>>

NextHit == CallFindSelfIntersections \/ CallHitTest

SpecHit == InitHit /\ [][NextHit]_vars

(***************************************************************************)
(* The page and the canvas: layers, selection, the shape tool and the      *)
(* pointer gestures.                                                       *)
(*                                                                         *)
(* Pointer events carry the sheet coordinates that the handlers compute    *)
(* from clientX, clientY and the viewport.  The viewport keeps the scale   *)
(* the page passes (canvasScale); handleWheel and the move handlers of     *)
(* panning, layer dragging, resizing and rotating are outside this model,  *)
(* so a layer keeps the box handleDrop gave it, and the state that only    *)
(* those handlers read (dragOffset, layerStartTransform, lastMouseX, ...)  *)
(* is left out.  The page's controls are used while no pointer button is   *)
(* held.                                                                   *)
(***************************************************************************)
MaxLayers == 2      \* layers on the sheet
MaxStroke == 3      \* points of one stroke of the shape tool
MaxUuids == 3       \* crypto.randomUUID() values before the last stroke starts

SheetWidth == 612
SheetHeight == 792
MaxSize == 200
HandleSize == 8
RotateHandleDistance == 30
canvasScale == R(1, 2)
viewportScale == canvasScale
mmToPoints == R(720, 254)

Buttons == {0, 1}

LayerId(n) == [kind |-> "layer", uuid |-> n]
ContourId(kind, index, uuid) == [kind |-> kind, index |-> index, uuid |-> uuid]

RMin(a, b) == IF RLe(a, b) THEN a ELSE b
RMax(a, b) == IF RLe(a, b) THEN b ELSE a
RLeast(S) == CHOOSE a \in S : \A b \in S : RLe(a, b)
RGreatest(S) == CHOOSE a \in S : \A b \in S : RLe(b, a)

\* The images that are dropped, and where.
Images == {[naturalWidth |-> I(200), naturalHeight |-> I(100)]}
DropPoints == {Pt(150, 100)}

\* What traceImage returns for the image: three squares in image pixels, the
\* middle one last in the list.
Box(x0, y0, x1, y1) == <<Pt(x0, y0), Pt(x1, y0), Pt(x1, y1), Pt(x0, y1)>>
LeftSquare == VectorPath(ContourId("traced", 0, 0), Box(20, 30, 60, 70), TRUE)
RightSquare == VectorPath(ContourId("traced", 1, 0), Box(140, 30, 180, 70), TRUE)
MiddleBox == VectorPath(ContourId("traced", 2, 0), Box(90, 30, 110, 70), TRUE)
TraceResults == {<<LeftSquare, RightSquare, MiddleBox>>}

\* The values the offset slider is moved to, in millimetres.
SliderValues == {RZero, R(127, 10)}

\* Where the pointer is pressed and where it moves, in sheet coordinates: in
\* the left square, in the right square, between the left square and the
\* middle box (in no contour, and in the offset forms of both when the slider
\* is at its second value), off every layer, on the south-east handle and on
\* the rotation handle of a layer dropped at DropPoints.
InLeft == Pt(90, 100)
InRight == Pt(210, 100)
BetweenSquares == Pt(130, 100)
OffLayers == Pt(300, 300)
OnCorner == Pt(250, 150)
OnRotate == Pt(150, -10)
PressPoints == {InLeft, OffLayers, OnCorner, OnRotate}

\* The presses: the middle button, ctrl with the left button, and the left
\* button at each point with and without shift.
PressEvents ==
    {[button |-> 1, ctrlKey |-> FALSE, shiftKey |-> FALSE, sheet |-> InLeft],
     [button |-> 0, ctrlKey |-> TRUE, shiftKey |-> FALSE, sheet |-> InLeft]}
    \cup {[button |-> 0, ctrlKey |-> FALSE, shiftKey |-> shiftKey, sheet |-> sheet] :
              shiftKey \in BOOLEAN, sheet \in PressPoints}
MovePoints == {InLeft, InRight, BetweenSquares}

\* paper.js and the DOM, as seen from unite: initializePaper throws; an
\* exception inside the try block; a single path; a compound path.
PaperOutcomes == {"initThrows", "uniteThrows", "single", "compound"}
NotCalled == "notCalled"

HasLayer(ls, id) == \E i \in 1..Len(ls) : ls[i].id = id
FindLayer(ls, id) == ls[CHOOSE i \in 1..Len(ls) : ls[i].id = id]

\* +page.svelte 731: selectedLayerIds={selectedLayerId ? [selectedLayerId] : []}
SelectedLayerIdsOf(id) == IF id = NoLayer THEN <<>> ELSE <<id>>
selectedLayerIds == SelectedLayerIdsOf(selectedLayerId)

\* Canvas.svelte 1202-1204: the effect copies the prop into selectionState
\* when the prop has changed; otherwise the canvas keeps what it assigned.
SyncSelection(assigned, newSelectedLayerId) ==
    IF newSelectedLayerId # selectedLayerId THEN SelectedLayerIdsOf(newSelectedLayerId)
    ELSE assigned

\* +page.svelte 371-377
handleLayerUpdate(ls, layerId, updates) ==
    [i \in 1..Len(ls) |->
        IF ls[i].id = layerId
        THEN [f \in DOMAIN ls[i] |-> IF f \in DOMAIN updates THEN updates[f] ELSE ls[i][f]]
        ELSE ls[i]]

PointerIdle == buttons = {}

\* Canvas.svelte 1109-1166 with +page.svelte 366-369, for one image file.
handleDrop(image, drop) ==
    /\ PointerIdle
    /\ lastRelease' = <<>>
    /\ Len(layers) < MaxLayers
    /\ LET aspectRatio == RDiv(image.naturalWidth, image.naturalHeight)
           width == IF RLt(I(1), aspectRatio) THEN I(MaxSize)
                    ELSE RMul(I(MaxSize), aspectRatio)
           height == IF RLt(I(1), aspectRatio) THEN RDiv(I(MaxSize), aspectRatio)
                     ELSE I(MaxSize)
           newLayer ==
               [id |-> LayerId(uuids + 1),
                type |-> "print",
                visible |-> TRUE,
                naturalWidth |-> image.naturalWidth,
                naturalHeight |-> image.naturalHeight,
                x |-> RMax(RZero, RMin(RSub(drop.x, RDiv(width, I(2))),
                                       RSub(I(SheetWidth), width))),
                y |-> RMax(RZero, RMin(RSub(drop.y, RDiv(height, I(2))),
                                       RSub(I(SheetHeight), height))),
                width |-> width,
                height |-> height,
                zIndex |-> I(Len(layers)),
                vectorPaths |-> <<>>,
                offset |-> RZero]
       IN  /\ layers' = Append(layers, newLayer)
           /\ selectedLayerId' = newLayer.id
           /\ selectionState' = SyncSelection(selectionState, newLayer.id)
    /\ uuids' = uuids + 1
    /\ UNCHANGED <<geomVars, isShapeToolActive, isDragging, isDraggingLayer, isResizing,
                   isRotating, resizeHandle, isShapeBuilding, shapeBuildPath,
                   highlightedContours, paperScope, buttons, uniteCalls>>

\* +page.svelte 440-452 with tracing.ts 494-512, from the button of line 870.
generateOutline(vectorPaths) ==
    /\ PointerIdle
    /\ lastRelease' = <<>>
    /\ Len(layers) < MaxLayers
    /\ selectedLayerId # NoLayer
    /\ HasLayer(layers, selectedLayerId)
    /\ FindLayer(layers, selectedLayerId).type = "print"
    /\ LET printLayer == FindLayer(layers, selectedLayerId)
           cutLayer == [printLayer EXCEPT !.id = LayerId(uuids + 1),
                                          !.type = "cut",
                                          !.vectorPaths = vectorPaths,
                                          !.zIndex = RAdd(printLayer.zIndex, R(1, 10))]
       IN  /\ layers' = Append(layers, cutLayer)
           /\ selectedLayerId' = cutLayer.id
           /\ selectionState' = SyncSelection(selectionState, cutLayer.id)
    /\ uuids' = uuids + 1
    /\ UNCHANGED <<geomVars, isShapeToolActive, isDragging, isDraggingLayer, isResizing,
                   isRotating, resizeHandle, isShapeBuilding, shapeBuildPath,
                   highlightedContours, paperScope, buttons, uniteCalls>>

\* +page.svelte 391-393, from a row of the layer list.
selectLayer(layerId) ==
    /\ PointerIdle
    /\ lastRelease' = <<>>
    /\ HasLayer(layers, layerId)
    /\ LET next == IF selectedLayerId = layerId THEN NoLayer ELSE layerId
       IN  /\ selectedLayerId' = next
           /\ selectionState' = SyncSelection(selectionState, next)
    /\ UNCHANGED <<geomVars, layers, isShapeToolActive, isDragging, isDraggingLayer,
                   isResizing, isRotating, resizeHandle, isShapeBuilding, shapeBuildPath,
                   highlightedContours, paperScope, buttons, uuids, uniteCalls>>

\* +page.svelte 475-480; the button of lines 906-914 is shown for a selected
\* cut layer and enabled while the layer has two contours or more.
toggleShapeTool ==
    /\ PointerIdle
    /\ lastRelease' = <<>>
    /\ selectedLayerId # NoLayer
    /\ HasLayer(layers, selectedLayerId)
    /\ FindLayer(layers, selectedLayerId).type = "cut"
    /\ Len(FindLayer(layers, selectedLayerId).vectorPaths) >= 2
    /\ isShapeToolActive' = ~isShapeToolActive
    /\ UNCHANGED <<geomVars, layers, selectedLayerId, canvasVars>>

\* Whether the exact arithmetic of this model can offset the contours: integer
\* coordinates and edges of rational length.
OffsetComputable(paths) ==
    \A k \in 1..Len(paths) :
        LET points == paths[k].points
            n == Len(points)
        IN  /\ \A i \in 1..n : points[i].x[2] = 1 /\ points[i].y[2] = 1
            /\ \A i \in 1..n : RationalEdge(points[i], points[(i % n) + 1])

\* +page.svelte 467-469, from the slider of lines 885-895 (shown for a
\* selected cut layer).
handleOffsetChange(offset) ==
    /\ PointerIdle
    /\ lastRelease' = <<>>
    /\ selectedLayerId # NoLayer
    /\ HasLayer(layers, selectedLayerId)
    /\ FindLayer(layers, selectedLayerId).type = "cut"
    /\ offset # RZero => OffsetComputable(FindLayer(layers, selectedLayerId).vectorPaths)
    /\ layers' = handleLayerUpdate(layers, selectedLayerId, [offset |-> offset])
    /\ UNCHANGED <<geomVars, selectedLayerId, isShapeToolActive, canvasVars>>

\* Canvas.svelte 595-626
ResizeHandles(layer) ==
    LET right == RAdd(layer.x, layer.width)
        bottom == RAdd(layer.y, layer.height)
        centre == RAdd(layer.x, RDiv(layer.width, I(2)))
        middle == RAdd(layer.y, RDiv(layer.height, I(2)))
    IN  <<[id |-> "nw", x |-> layer.x, y |-> layer.y],
          [id |-> "ne", x |-> right, y |-> layer.y],
          [id |-> "sw", x |-> layer.x, y |-> bottom],
          [id |-> "se", x |-> right, y |-> bottom],
          [id |-> "n", x |-> centre, y |-> layer.y],
          [id |-> "s", x |-> centre, y |-> bottom],
          [id |-> "w", x |-> layer.x, y |-> middle],
          [id |-> "e", x |-> right, y |-> middle]>>

getHitHandle(sheet, layer) ==
    LET tolerance == RDiv(I(HandleSize), viewportScale)
        near(x, y) == /\ RLe(RAbs(RSub(sheet.x, x)), tolerance)
                      /\ RLe(RAbs(RSub(sheet.y, y)), tolerance)
        rotationHandleX == RAdd(layer.x, RDiv(layer.width, I(2)))
        rotationHandleY == RSub(layer.y, RDiv(I(RotateHandleDistance), viewportScale))
        handles == ResizeHandles(layer)
        hits == {k \in 1..Len(handles) : near(handles[k].x, handles[k].y)}
    IN  IF near(rotationHandleX, rotationHandleY) THEN "rotate"
        ELSE IF hits = {} THEN NoHandle
        ELSE handles[CHOOSE k \in hits : \A m \in hits : k <= m].id

\* Canvas.svelte 577-592: the index in layers of the topmost layer under the
\* point, 0 for null.  The sort is stable: of equal zIndex the earlier wins.
getHitLayer(sheet) ==
    LET under == {i \in 1..Len(layers) :
                     /\ layers[i].visible
                     /\ RLe(layers[i].x, sheet.x)
                     /\ RLe(sheet.x, RAdd(layers[i].x, layers[i].width))
                     /\ RLe(layers[i].y, sheet.y)
                     /\ RLe(sheet.y, RAdd(layers[i].y, layers[i].height))}
        before(i, j) == \/ RLt(layers[j].zIndex, layers[i].zIndex)
                        \/ layers[j].zIndex = layers[i].zIndex /\ i <= j
    IN  IF under = {} THEN 0
        ELSE CHOOSE i \in under : \A j \in under : before(i, j)

\* Canvas.svelte 460-470: the first selected, visible layer with a handle
\* under the point, as <<handle, layer id>>; <<>> when there is none.
HitHandleOfSelection(sheet) ==
    LET hits == {k \in 1..Len(selectionState) :
                    /\ HasLayer(layers, selectionState[k])
                    /\ FindLayer(layers, selectionState[k]).visible
                    /\ getHitHandle(sheet, FindLayer(layers, selectionState[k])) # NoHandle}
        first == CHOOSE k \in hits : \A m \in hits : k <= m
    IN  IF hits = {} THEN <<>>
        ELSE <<getHitHandle(sheet, FindLayer(layers, selectionState[first])),
               selectionState[first]>>

\* Canvas.svelte 521-532
ClickSelection(clicked, shiftKey) ==
    IF ~shiftKey THEN <<clicked>>
    ELSE IF \E k \in 1..Len(selectionState) : selectionState[k] = clicked
    THEN SelectSeq(selectionState, LAMBDA id : id # clicked)
    ELSE Append(selectionState, clicked)

\* +page.svelte 379-381
handleSelectionChange(selectedIds) ==
    IF Len(selectedIds) = 1 THEN selectedIds[1] ELSE NoLayer

\* Canvas.svelte 446-547: the left press on a handle of the selection (hit is
\* <<handle, layer id>>), on a layer (clicked is its index) or on neither.
SelectOrTransform(hit, clicked, shiftKey) ==
    IF hit # <<>>
    THEN /\ isRotating' = IF hit[1] = "rotate" THEN TRUE ELSE isRotating
         /\ isResizing' = IF hit[1] = "rotate" THEN isResizing ELSE TRUE
         /\ resizeHandle' = IF hit[1] = "rotate" THEN resizeHandle ELSE hit[1]
         /\ UNCHANGED <<selectedLayerId, selectionState, isDragging, isDraggingLayer,
                        isShapeBuilding, shapeBuildPath, highlightedContours>>
    ELSE IF clicked # 0
    THEN LET assigned == ClickSelection(layers[clicked].id, shiftKey)
             next == handleSelectionChange(assigned)
         IN  /\ isDraggingLayer' = TRUE
             /\ selectedLayerId' = next
             /\ selectionState' = SyncSelection(assigned, next)
             /\ UNCHANGED <<isDragging, isResizing, isRotating, resizeHandle,
                            isShapeBuilding, shapeBuildPath, highlightedContours>>
    ELSE /\ selectedLayerId' = handleSelectionChange(<<>>)
         /\ selectionState' = SyncSelection(<<>>, handleSelectionChange(<<>>))
         /\ UNCHANGED <<isDragging, isDraggingLayer, isResizing, isRotating,
                        resizeHandle, isShapeBuilding, shapeBuildPath,
                        highlightedContours>>

\* A dispatch that tests the shape tool before the pan: the variant against
\* which C27 is checked.
handleMouseDownToolFirst(button, ctrlKey, shiftKey, sheet) ==
    /\ button \notin buttons
    /\ lastRelease' = <<>>
    /\ buttons' = buttons \cup {button}
    /\ (button = 0 /\ ~ctrlKey /\ isShapeToolActive) => uuids < MaxUuids
    /\ IF button = 0 /\ isShapeToolActive
       THEN /\ isShapeBuilding' = TRUE
            /\ shapeBuildPath' = <<sheet>>
            /\ highlightedContours' = <<>>
            /\ uniteCalls' = <<>>
            /\ UNCHANGED <<selectedLayerId, selectionState, isDragging, isDraggingLayer,
                           isResizing, isRotating, resizeHandle>>
       ELSE IF button = 1 \/ (button = 0 /\ ctrlKey)
       THEN /\ isDragging' = TRUE
            /\ UNCHANGED <<selectedLayerId, selectionState, isDraggingLayer, isResizing,
                           isRotating, resizeHandle, isShapeBuilding, shapeBuildPath,
                           highlightedContours, uniteCalls>>
       ELSE IF button = 0
       THEN /\ SelectOrTransform(HitHandleOfSelection(sheet), getHitLayer(sheet), shiftKey)
            /\ UNCHANGED uniteCalls
       ELSE UNCHANGED <<selectedLayerId, selectionState, isDragging, isDraggingLayer,
                        isResizing, isRotating, resizeHandle, isShapeBuilding,
                        shapeBuildPath, highlightedContours, uniteCalls>>
    /\ UNCHANGED <<geomVars, layers, isShapeToolActive, paperScope, uuids>>

\* Canvas.svelte 411-548.  A stroke of the shape tool starts while
\* crypto.randomUUID() has values left for its merge.
handleMouseDown(button, ctrlKey, shiftKey, sheet) ==
    /\ button \notin buttons
    /\ lastRelease' = <<>>
    /\ buttons' = buttons \cup {button}
    /\ (button = 0 /\ ~ctrlKey /\ isShapeToolActive) => uuids < MaxUuids
    /\ IF button = 1 \/ (button = 0 /\ ctrlKey)
       THEN /\ isDragging' = TRUE
            /\ UNCHANGED <<selectedLayerId, selectionState, isDraggingLayer, isResizing,
                           isRotating, resizeHandle, isShapeBuilding, shapeBuildPath,
                           highlightedContours, uniteCalls>>
       ELSE IF button = 0 /\ isShapeToolActive
       THEN /\ isShapeBuilding' = TRUE
            /\ shapeBuildPath' = <<sheet>>
            /\ highlightedContours' = <<>>
            /\ uniteCalls' = <<>>
            /\ UNCHANGED <<selectedLayerId, selectionState, isDragging, isDraggingLayer,
                           isResizing, isRotating, resizeHandle>>
       ELSE IF button = 0
       THEN /\ SelectOrTransform(HitHandleOfSelection(sheet), getHitLayer(sheet), shiftKey)
            /\ UNCHANGED uniteCalls
       ELSE UNCHANGED <<selectedLayerId, selectionState, isDragging, isDraggingLayer,
                        isResizing, isRotating, resizeHandle, isShapeBuilding,
                        shapeBuildPath, highlightedContours, uniteCalls>>
    /\ UNCHANGED <<geomVars, layers, isShapeToolActive, paperScope, uuids>>

\* Canvas.svelte 890-892 and 1069-1071
OffsetInImagePixels(layer) ==
    LET imageScale == IF layer.naturalWidth # RZero
                      THEN RDiv(layer.naturalWidth, layer.width) ELSE I(1)
    IN  RMul(RMul(layer.offset, mmToPoints), imageScale)

\* Canvas.svelte 886-895
PathsToCheck(layer) ==
    IF layer.offset # RZero
    THEN [k \in 1..Len(layer.vectorPaths) |->
             offsetVectorPath(layer.vectorPaths[k], OffsetInImagePixels(layer))]
    ELSE layer.vectorPaths

\* A touched set that holds the hits of the latest sample only: the variant
\* against which C16 is checked.
AddHitsOfSampleOnly(sheet, layer, pathsToCheck) ==
    SelectSeq([k \in 1..Len(layer.vectorPaths) |-> k - 1],
              LAMBDA index :
                  LET hitResults == checkPointInContourAndLoops(sheet,
                                                                pathsToCheck[index + 1], layer)
                  IN  hitResults.inMainShape \/ hitResults.inLoop)

\* Canvas.svelte 901-910: the touched set after the forEach over pathsToCheck.
AddHits(sheet, layer, pathsToCheck) ==
    LET hit(index) ==
            LET hitResults == checkPointInContourAndLoops(sheet, pathsToCheck[index + 1],
                                                          layer)
            IN  hitResults.inMainShape \/ hitResults.inLoop
        added == SelectSeq([k \in 1..Len(layer.vectorPaths) |-> k - 1],
                           LAMBDA index :
                               /\ hit(index)
                               /\ \A m \in 1..Len(highlightedContours) :
                                      highlightedContours[m] # index)
    IN  highlightedContours \o added

\* Canvas.svelte 880-913: the touched set after the sample.
updateHighlightedContours(sheet) ==
    IF selectedLayerIds = <<>> THEN highlightedContours
    ELSE IF ~HasLayer(layers, selectedLayerIds[1]) THEN highlightedContours
    ELSE IF FindLayer(layers, selectedLayerIds[1]).type # "cut" THEN highlightedContours
    ELSE AddHits(sheet, FindLayer(layers, selectedLayerIds[1]),
                 PathsToCheck(FindLayer(layers, selectedLayerIds[1])))

\* Canvas.svelte 823-841, the listener of a stroke.
handleShapeBuildMouseMove(sheet) ==
    /\ isShapeBuilding
    /\ lastRelease' = <<>>
    /\ Len(shapeBuildPath) < MaxStroke
    /\ shapeBuildPath' = Append(shapeBuildPath, sheet)
    /\ highlightedContours' = updateHighlightedContours(sheet)
    /\ UNCHANGED <<geomVars, pageVars, selectionState, isDragging, isDraggingLayer,
                   isResizing, isRotating, resizeHandle, isShapeBuilding, paperScope,
                   buttons, uuids, uniteCalls>>

\* What paper.js returns for the union of the paths: for a single path, the
\* box around them; for a compound path, the paths themselves as children.
PaperUnion(paths, compound) ==
    LET all == UNION {{paths[k].points[i] : i \in 1..Len(paths[k].points)} :
                          k \in 1..Len(paths)}
        x0 == RLeast({p.x : p \in all})
        x1 == RGreatest({p.x : p \in all})
        y0 == RLeast({p.y : p \in all})
        y1 == RGreatest({p.y : p \in all})
    IN  IF compound THEN [k \in 1..Len(paths) |-> paths[k].points]
        ELSE <<<<Point(x0, y0), Point(x1, y0), Point(x1, y1), Point(x0, y1)>>>>

\* pathfinder.ts 113-128: the paths made of the children of the result.
ResultPaths(children, compound) ==
    [i \in 1..Len(children) |->
        VectorPath(ContourId(IF compound THEN "united-child" ELSE "united",
                             IF compound THEN i - 1 ELSE 0,
                             uuids + i),
                   children[i], TRUE)]

\* pathfinder.ts 98-134: what the call throws or returns, the ids it draws
\* and paperScope after it.
unite(paths, outcome) ==
    IF outcome = "initThrows"
    THEN [thrown |-> TRUE, ret |-> <<>>, uuids |-> uuids, paperScope |-> paperScope]
    ELSE IF Len(paths) = 0 \/ outcome = "uniteThrows"
    THEN [thrown |-> FALSE, ret |-> <<>>, uuids |-> uuids, paperScope |-> TRUE]
    ELSE [thrown |-> FALSE,
          ret |-> ResultPaths(PaperUnion(paths, outcome = "compound"),
                              outcome = "compound"),
          uuids |-> uuids + (IF outcome = "compound" THEN Len(paths) ELSE 1),
          paperScope |-> TRUE]

\* The stored contours, whatever the offset: the variant against which C1 is
\* checked.
PathsToConsolidateRaw(layer) == layer.vectorPaths

\* Canvas.svelte 1067-1074
PathsToConsolidate(layer) ==
    IF layer.offset # RZero
    THEN [k \in 1..Len(layer.vectorPaths) |->
             offsetVectorPath(layer.vectorPaths[k], OffsetInImagePixels(layer))]
    ELSE layer.vectorPaths

\* Canvas.svelte 1053-1094: the layers, the ids drawn, paperScope and the
\* calls of unite after consolidateHighlightedContours.
NotConsolidated ==
    [layers |-> layers, uuids |-> uuids, paperScope |-> paperScope, calls |-> <<>>]

IsHighlighted(index) ==
    \E m \in 1..Len(highlightedContours) : highlightedContours[m] = index

\* A selection of every contour of the layer, touched or not: the variant
\* against which C26 is checked.
SelectedContoursAll(pathsToConsolidate) == pathsToConsolidate

\* Canvas.svelte 1077-1078
SelectedContours(pathsToConsolidate) ==
    [m \in 1..Len(highlightedContours) |-> pathsToConsolidate[highlightedContours[m] + 1]]

RemainingContours(pathsToConsolidate) ==
    LET remaining == SelectSeq([k \in 1..Len(pathsToConsolidate) |-> k - 1],
                               LAMBDA index : ~IsHighlighted(index))
    IN  [m \in 1..Len(remaining) |-> pathsToConsolidate[remaining[m] + 1]]

\* An update that stores the contours and leaves the offset of the layer as
\* it is: the variant against which C25 is checked.
ConsolidatedKeepsOffset(layer, selectedContours, remainingContours, united) ==
    [layers |-> IF united.thrown THEN layers
                ELSE handleLayerUpdate(layers, layer.id,
                         [vectorPaths |-> remainingContours \o united.ret,
                          offset |-> layer.offset]),
     uuids |-> united.uuids,
     paperScope |-> united.paperScope,
     calls |-> <<[paths |-> selectedContours, thrown |-> united.thrown,
                  ret |-> united.ret, layerOffset |-> layer.offset]>>]

\* Canvas.svelte 1080-1093: the try block around unite, united being what
\* the call threw or returned.
Consolidated(layer, selectedContours, remainingContours, united) ==
    [layers |-> IF united.thrown THEN layers
                ELSE handleLayerUpdate(layers, layer.id,
                         [vectorPaths |-> remainingContours \o united.ret,
                          offset |-> RZero]),
     uuids |-> united.uuids,
     paperScope |-> united.paperScope,
     calls |-> <<[paths |-> selectedContours, thrown |-> united.thrown,
                  ret |-> united.ret, layerOffset |-> layer.offset]>>]

ConsolidateOn(layer, pathsToConsolidate, outcome) ==
    Consolidated(layer, SelectedContours(pathsToConsolidate),
                 RemainingContours(pathsToConsolidate),
                 unite(SelectedContours(pathsToConsolidate), outcome))

consolidateHighlightedContours(outcome) ==
    IF selectedLayerIds = <<>> \/ Len(highlightedContours) < 2 THEN NotConsolidated
    ELSE IF ~HasLayer(layers, selectedLayerIds[1]) THEN NotConsolidated
    ELSE IF FindLayer(layers, selectedLayerIds[1]).type # "cut" THEN NotConsolidated
    ELSE ConsolidateOn(FindLayer(layers, selectedLayerIds[1]),
                       PathsToConsolidate(FindLayer(layers, selectedLayerIds[1])), outcome)

\* The end of a stroke that leaves the touched set as it is: the variant
\* against which C15 is checked.
ShapeBuildDoneKeepsTouched(done) ==
    /\ layers' = done.layers
    /\ uuids' = done.uuids
    /\ paperScope' = done.paperScope
    /\ uniteCalls' = done.calls
    /\ isShapeBuilding' = FALSE
    /\ shapeBuildPath' = <<>>
    /\ highlightedContours' = highlightedContours
    /\ lastRelease' = <<[path |-> shapeBuildPath, touched |-> highlightedContours]>>

\* Canvas.svelte 843-858, the listener of a stroke; onShapeSelection is the
\* function the page passes (+page.svelte 738).
ShapeBuildDone(done) ==
    /\ layers' = done.layers
    /\ uuids' = done.uuids
    /\ paperScope' = done.paperScope
    /\ uniteCalls' = done.calls
    /\ isShapeBuilding' = FALSE
    /\ shapeBuildPath' = <<>>
    /\ highlightedContours' = <<>>
    /\ lastRelease' = <<[path |-> shapeBuildPath, touched |-> highlightedContours]>>

\* A release that consolidates whatever the size of the touched set: the
\* variant against which C14 is checked.
handleShapeBuildMouseUpUnguarded(outcome) ==
    ShapeBuildDone(IF selectedLayerIds # <<>> /\ HasLayer(layers, selectedLayerIds[1])
                      /\ FindLayer(layers, selectedLayerIds[1]).type = "cut"
                   THEN ConsolidateOn(FindLayer(layers, selectedLayerIds[1]),
                                      PathsToConsolidate(FindLayer(layers, selectedLayerIds[1])),
                                      outcome)
                   ELSE NotConsolidated)

handleShapeBuildMouseUp(outcome) ==
    ShapeBuildDone(IF isShapeBuilding /\ Len(highlightedContours) > 1
                   THEN consolidateHighlightedContours(outcome)
                   ELSE NotConsolidated)

\* The mouseup event of the document: every listener that a pointer-down
\* has added runs (handleGlobalMouseUp 565-574, handleLayerMouseUp 666-672,
\* handleTransformMouseUp 809-820, handleShapeBuildMouseUp) and removes
\* itself.
UniteOutcomes ==
    IF isShapeBuilding /\ Len(highlightedContours) > 1
           /\ consolidateHighlightedContours(NotCalled).calls # <<>>
    THEN {outcome \in PaperOutcomes : outcome = "initThrows" => ~paperScope}
    ELSE {NotCalled}

handleMouseUp(button, outcome) ==
    /\ button \in buttons
    /\ buttons' = buttons \ {button}
    /\ isDragging' = FALSE
    /\ isDraggingLayer' = FALSE
    /\ isResizing' = FALSE
    /\ isRotating' = FALSE
    /\ resizeHandle' = IF isResizing \/ isRotating THEN NoHandle ELSE resizeHandle
    /\ IF isShapeBuilding THEN handleShapeBuildMouseUp(outcome)
       ELSE /\ lastRelease' = <<>>
            /\ UNCHANGED <<layers, uuids, paperScope, uniteCalls, isShapeBuilding,
                           shapeBuildPath, highlightedContours>>
    /\ UNCHANGED <<geomVars, selectedLayerId, isShapeToolActive, selectionState>>

Init ==
    /\ Constructed
    /\ geomCall = NoCall
    /\ geomResult = <<>>

Next ==
    \/ \E image \in Images, drop \in DropPoints : handleDrop(image, drop)
    \/ \E vectorPaths \in TraceResults : generateOutline(vectorPaths)
    \/ \E i \in 1..Len(layers) : selectLayer(layers[i].id)
    \/ toggleShapeTool
    \/ \E offset \in SliderValues : handleOffsetChange(offset)
    \/ \E event \in PressEvents :
           handleMouseDown(event.button, event.ctrlKey, event.shiftKey, event.sheet)
    \/ \E sheet \in MovePoints : handleShapeBuildMouseMove(sheet)
    \/ \E button \in Buttons, outcome \in UniteOutcomes : handleMouseUp(button, outcome)

Spec == Init /\ [][Next]_vars

(***************************************************************************)
(* The contours of a cut layer as they are drawn, hit-tested and           *)
(* consolidated: the specification that applies the three computations to  *)
(* a layer                                                                 *)
(***************************************************************************)
\* Canvas.svelte 221-239: pathsToRender of drawSheet for a cut layer with an
\* image.  layer.traceParameters?.pointReduction || 0.5 is 0.5 for 0.
PathsToRender(layer) ==
    LET imageScale == RDiv(layer.naturalWidth, layer.width)
        offsetInImagePixels == RMul(RMul(layer.offset, mmToPoints), imageScale)
        pointReduction == IF layer.pointReduction # RZero THEN layer.pointReduction
                          ELSE R(1, 2)
    IN  IF layer.offset # RZero
        THEN [k \in 1..Len(layer.vectorPaths) |->
                 offsetVectorPath(reducePoints(layer.vectorPaths[k],
                                               RMul(pointReduction, imageScale)),
                                  offsetInImagePixels)]
        ELSE layer.vectorPaths

\* export.ts (part_003 1574-1576): the stable sort of the layers by zIndex.
InsertByZIndex(sorted, layer) ==
    LET before == SelectSeq(sorted, LAMBDA l : RLe(l.zIndex, layer.zIndex))
        after == SelectSeq(sorted, LAMBDA l : ~RLe(l.zIndex, layer.zIndex))
    IN  before \o <<layer>> \o after

RECURSIVE SortByZIndex(_)
SortByZIndex(ls) ==
    IF ls = <<>> THEN <<>>
    ELSE InsertByZIndex(SortByZIndex(SubSeq(ls, 1, Len(ls) - 1)), ls[Len(ls)])

\* export.ts (part_003 1588-1606): the path element of a contour of 2 points
\* or more: the points of the d attribute, in the units of the layer, and
\* whether it ends with Z.
ExportedPath(path, layer) ==
    [d |-> [i \in 1..Len(path.points) |->
               Point(RMul(RDiv(path.points[i].x,
                               IF layer.naturalWidth # RZero THEN layer.naturalWidth
                               ELSE I(1)), layer.width),
                     RMul(RDiv(path.points[i].y,
                               IF layer.naturalHeight # RZero THEN layer.naturalHeight
                               ELSE I(1)), layer.height))],
     closed |-> path.closed]

\* export.ts (part_003 1561-1614): the groups of the SVG document, one for
\* each visible cut layer in the order of zIndex, each with its translation
\* and its path elements.
exportToSVG(ls) ==
    LET cutLayers == SortByZIndex(SelectSeq(ls, LAMBDA l : l.visible /\ l.type = "cut"))
    IN  [g \in 1..Len(cutLayers) |->
            [x |-> cutLayers[g].x,
             y |-> cutLayers[g].y,
             paths |-> LET drawn == SelectSeq(cutLayers[g].vectorPaths,
                                              LAMBDA path : Len(path.points) >= 2)
                       IN  [k \in 1..Len(drawn) |-> ExportedPath(drawn[k], cutLayers[g])]]]

\* The contours of the layers: a square, a square with a point 1 pixel after
\* its first corner, a square that repeats its first point at the end, and a
\* rectangle.
FormContours ==
    {Box(0, 0, 10, 10),
     <<Pt(0, 0), Pt(1, 0), Pt(10, 0), Pt(10, 10), Pt(0, 10)>>,
     <<Pt(0, 0), Pt(10, 0), Pt(10, 10), Pt(0, 10), Pt(0, 0)>>,
     Box(0, 0, 6, 8)}

\* Offsets in millimetres: 2 points outward and 1 point inward, and none.
FormOffsets == {R(127, 180), R(-127, 360), RZero}

\* The width the image of 30 pixels is shown at: its own, and a third of it.
FormWidths == {I(30), I(10)}

\* traceParameters.pointReduction of the layer.
FormPointReductions == {RZero, R(1, 2), I(2)}

FormLayers ==
    {[type |-> "cut", visible |-> TRUE, zIndex |-> R(1, 10),
      naturalWidth |-> I(30), naturalHeight |-> I(30),
      width |-> w, height |-> w, x |-> I(0), y |-> I(0), offset |-> o,
      pointReduction |-> t,
      vectorPaths |-> <<VectorPath(ContourId("traced", 0, 0), c, TRUE)>>] :
        c \in FormContours, o \in FormOffsets, w \in FormWidths, t \in FormPointReductions}

InitForms ==
    /\ geomCall \in {[fn |-> "contourForms", layer |-> layer] : layer \in FormLayers}
    /\ geomResult = <<>>
    /\ Constructed

FormComputed(by) == \E i \in 1..Len(geomResult) : geomResult[i].by = by

\* drawSheet computes pathsToRender for the layer.
DrawCutPaths ==
    /\ geomCall.fn = "contourForms"
    /\ ~FormComputed("drawSheet")
    /\ geomResult' = Append(geomResult, [by |-> "drawSheet",
                                         paths |-> PathsToRender(geomCall.layer)])
    /\ UNCHANGED <<geomCall, pageVars, canvasVars>>

\* updateHighlightedContours computes pathsToCheck for the layer.
HitTestPaths ==
    /\ geomCall.fn = "contourForms"
    /\ ~FormComputed("updateHighlightedContours")
    /\ geomResult' = Append(geomResult, [by |-> "updateHighlightedContours",
                                         paths |-> PathsToCheck(geomCall.layer)])
    /\ UNCHANGED <<geomCall, pageVars, canvasVars>>

\* consolidateHighlightedContours computes pathsToConsolidate for the layer.
ConsolidatePaths ==
    /\ geomCall.fn = "contourForms"
    /\ ~FormComputed("consolidateHighlightedContours")
    /\ geomResult' = Append(geomResult, [by |-> "consolidateHighlightedContours",
                                         paths |-> PathsToConsolidate(geomCall.layer)])
    /\ UNCHANGED <<geomCall, pageVars, canvasVars>>

\* handleExportVector (+page.svelte 498-509) exports the layer.
ExportLayers ==
    /\ geomCall.fn = "contourForms"
    /\ ~FormComputed("exportToSVG")
    /\ geomResult' = Append(geomResult, [by |-> "exportToSVG",
                                         groups |-> exportToSVG(<<geomCall.layer>>)])
    /\ UNCHANGED <<geomCall, pageVars, canvasVars>>

NextForms == DrawCutPaths \/ HitTestPaths \/ ConsolidatePaths \/ ExportLayers

SpecForms == InitForms /\ [][NextForms]_vars

(***************************************************************************)
(* The layer list of the page (+page.svelte): drops, outlines, deletions,  *)
(* moves, registration marks, project files and the selection              *)
(***************************************************************************)
MaxPageLayers == 3  \* layers on the sheet once registration marks are added
MaxPageUuids == 4   \* crypto.randomUUID() values drawn by the page

\* What the page leaves alone when it changes the layer list or the selection.
PageStep ==
    /\ PointerIdle
    /\ lastRelease' = <<>>
    /\ UNCHANGED <<geomVars, isShapeToolActive, isDragging, isDraggingLayer, isResizing,
                   isRotating, resizeHandle, isShapeBuilding, shapeBuildPath,
                   highlightedContours, paperScope, buttons, uniteCalls>>

\* +page.svelte 395-400, from the Delete button of lines 826-834 (enabled
\* while a layer is selected).
deleteLayer(layerId) ==
    /\ PageStep
    /\ layerId # NoLayer
    /\ layers' = SelectSeq(layers, LAMBDA layer : layer.id # layerId)
    /\ selectedLayerId' = IF selectedLayerId = layerId THEN NoLayer ELSE selectedLayerId
    /\ selectionState' = SyncSelection(selectionState,
                                       IF selectedLayerId = layerId THEN NoLayer
                                       ELSE selectedLayerId)
    /\ UNCHANGED uuids

\* +page.svelte 407-413: the first of the layers above whose zIndex is lowest
\* (reduce keeps the earlier one of two equal candidates).
LowestLayer(candidates) ==
    candidates[CHOOSE i \in 1..Len(candidates) :
                   /\ \A j \in 1..Len(candidates) :
                          RLe(candidates[i].zIndex, candidates[j].zIndex)
                   /\ \A j \in 1..(i - 1) :
                          RLt(candidates[i].zIndex, candidates[j].zIndex)]

\* +page.svelte 426-432: the first of the layers below whose zIndex is highest.
HighestLayer(candidates) ==
    candidates[CHOOSE i \in 1..Len(candidates) :
                   /\ \A j \in 1..Len(candidates) :
                          RLe(candidates[j].zIndex, candidates[i].zIndex)
                   /\ \A j \in 1..(i - 1) :
                          RLt(candidates[j].zIndex, candidates[i].zIndex)]

\* +page.svelte 415-418 and 434-437: the two calls of handleLayerUpdate that
\* swap the z-indices.
SwapZIndex(layer, nextLayer) ==
    handleLayerUpdate(handleLayerUpdate(layers, layer.id, [zIndex |-> nextLayer.zIndex]),
                      nextLayer.id, [zIndex |-> layer.zIndex])

\* +page.svelte 402-419, from the button of lines 808-816.
moveLayerUp(layerId) ==
    /\ PageStep
    /\ layerId # NoLayer
    /\ IF ~HasLayer(layers, layerId) THEN UNCHANGED layers
       ELSE LET layer == FindLayer(layers, layerId)
                layersAbove == SelectSeq(layers, LAMBDA l : RLt(layer.zIndex, l.zIndex))
            IN  IF layersAbove = <<>> THEN UNCHANGED layers
                ELSE layers' = SwapZIndex(layer, LowestLayer(layersAbove))
    /\ UNCHANGED <<selectedLayerId, selectionState, uuids>>

\* +page.svelte 421-438, from the button of lines 817-825.
moveLayerDown(layerId) ==
    /\ PageStep
    /\ layerId # NoLayer
    /\ IF ~HasLayer(layers, layerId) THEN UNCHANGED layers
       ELSE LET layer == FindLayer(layers, layerId)
                layersBelow == SelectSeq(layers, LAMBDA l : RLt(l.zIndex, layer.zIndex))
            IN  IF layersBelow = <<>> THEN UNCHANGED layers
                ELSE layers' = SwapZIndex(layer, HighestLayer(layersBelow))
    /\ UNCHANGED <<selectedLayerId, selectionState, uuids>>

\* +page.svelte 558-559: 5 mm in points.
markSizeInPoints == R(5 * 720, 254)

\* +page.svelte 556-655, from the menu item of line 693: the two squares, the
\* cut layer and, when the image of the marks has loaded (img.onload, taken
\* to run before the next event), the print layer below it.  A layer without
\* an image has naturalWidth and naturalHeight 0.
addRegistrationMarks ==
    /\ PageStep
    /\ Len(layers) + 2 <= MaxPageLayers
    /\ LET maxZIndex == IF Len(layers) > 0
                        THEN RGreatest({layers[i].zIndex : i \in 1..Len(layers)})
                        ELSE RZero
           width == I(SheetWidth)
           height == I(SheetHeight)
           topLeftSquare ==
               VectorPath(ContourId("mark", 0, uuids + 1),
                          <<Point(RZero, RZero), Point(markSizeInPoints, RZero),
                            Point(markSizeInPoints, markSizeInPoints),
                            Point(RZero, markSizeInPoints)>>, TRUE)
           bottomRightSquare ==
               VectorPath(ContourId("mark", 1, uuids + 2),
                          <<Point(RSub(width, markSizeInPoints), RSub(height, markSizeInPoints)),
                            Point(width, RSub(height, markSizeInPoints)),
                            Point(width, height),
                            Point(RSub(width, markSizeInPoints), height)>>, TRUE)
           vectorLayer ==
               [id |-> LayerId(uuids + 3), type |-> "cut", visible |-> TRUE,
                naturalWidth |-> RZero, naturalHeight |-> RZero,
                x |-> RZero, y |-> RZero, width |-> width, height |-> height,
                zIndex |-> RAdd(maxZIndex, I(2)),
                vectorPaths |-> <<topLeftSquare, bottomRightSquare>>, offset |-> RZero]
           rasterLayer ==
               [id |-> LayerId(uuids + 4), type |-> "print", visible |-> TRUE,
                naturalWidth |-> width, naturalHeight |-> height,
                x |-> RZero, y |-> RZero, width |-> width, height |-> height,
                zIndex |-> RAdd(maxZIndex, I(1)),
                vectorPaths |-> <<>>, offset |-> RZero]
       IN  layers' = layers \o <<rasterLayer, vectorLayer>>
    /\ uuids' = uuids + 4
    /\ UNCHANGED <<selectedLayerId, selectionState>>

\* A layer of a project file.
FileLayer(id, type, zIndex) ==
    [id |-> id, type |-> type, visible |-> TRUE,
     naturalWidth |-> I(200), naturalHeight |-> I(100),
     x |-> I(50), y |-> I(50), width |-> I(200), height |-> I(100),
     zIndex |-> zIndex, vectorPaths |-> <<>>, offset |-> RZero]

\* The project files the user picks: one saved with its layer selected, one
\* whose canvasState names a layer that is not in the file, one with two
\* layers and no selection, one with a layer of an unknown type, and one with
\* a layer without an id.
ProjectFiles ==
    {[layers |-> <<FileLayer(LayerId(101), "print", I(0))>>,
      selectedLayerId |-> LayerId(101)],
     [layers |-> <<FileLayer(LayerId(101), "print", I(0))>>,
      selectedLayerId |-> LayerId(102)],
     [layers |-> <<FileLayer(LayerId(101), "print", I(0)),
                   FileLayer(LayerId(102), "cut", R(1, 10))>>,
      selectedLayerId |-> NoLayer],
     [layers |-> <<FileLayer(LayerId(101), "group", I(0))>>,
      selectedLayerId |-> LayerId(101)],
     [layers |-> <<FileLayer(NoLayer, "print", I(0))>>,
      selectedLayerId |-> NoLayer]}

\* projectFile.ts (part_002 532-578): what validateProject checks of the
\* layers: an id that is a non-blank string and a type of print or cut
\* (NoLayer stands for an id that is not a string).
validateProject(project) ==
    \A i \in 1..Len(project.layers) :
        /\ project.layers[i].id # NoLayer
        /\ project.layers[i].type \in {"print", "cut"}

\* +page.svelte 532-553, from the menu item of line 681: the layers and the
\* selection of the file replace those of the page; a file that
\* validateProject rejects changes nothing (the catch of line 549).
handleLoadProject(project) ==
    /\ PageStep
    /\ IF validateProject(project)
       THEN /\ layers' = project.layers
            /\ selectedLayerId' = project.selectedLayerId
            /\ selectionState' = SyncSelection(selectionState, project.selectedLayerId)
       ELSE UNCHANGED <<layers, selectedLayerId, selectionState>>
    /\ UNCHANGED uuids

\* The presses on the canvas that change the selection: the left button,
\* with and without shift, on a layer and off every layer.
SelectionPresses == {e \in PressEvents : e.button = 0 /\ ~e.ctrlKey}

NextPage ==
    \/ /\ uuids + 1 <= MaxPageUuids
       /\ \E image \in Images, drop \in DropPoints : handleDrop(image, drop)
    \/ /\ uuids + 1 <= MaxPageUuids
       /\ \E vectorPaths \in TraceResults : generateOutline(vectorPaths)
    \/ \E i \in 1..Len(layers) : selectLayer(layers[i].id)
    \/ deleteLayer(selectedLayerId)
    \/ moveLayerUp(selectedLayerId)
    \/ moveLayerDown(selectedLayerId)
    \/ /\ uuids + 4 <= MaxPageUuids
       /\ addRegistrationMarks
    \/ \E project \in ProjectFiles : handleLoadProject(project)
    \/ \E event \in SelectionPresses :
           handleMouseDown(event.button, event.ctrlKey, event.shiftKey, event.sheet)
    \/ handleMouseUp(0, NotCalled)

SpecPage == Init /\ [][NextPage]_vars

(***************************************************************************)
(* Plane geometry used to state the claims (not part of the program)       *)
(***************************************************************************)
Cross(a, b, c) ==
    RSub(RMul(RSub(b.x, a.x), RSub(c.y, a.y)), RMul(RSub(b.y, a.y), RSub(c.x, a.x)))

Sign(r) == IF r[1] > 0 THEN 1 ELSE IF r[1] < 0 THEN -1 ELSE 0

Between(lo, hi, v) == (RLe(lo, v) /\ RLe(v, hi)) \/ (RLe(hi, v) /\ RLe(v, lo))

\* p lies on the closed segment a b.
OnSegment(a, b, p) ==
    Cross(a, b, p) = RZero /\ Between(a.x, b.x, p.x) /\ Between(a.y, b.y, p.y)

\* The closed segments a b and c d have a common point.
SegmentsMeet(a, b, c, d) ==
    \/ /\ Sign(Cross(a, b, c)) * Sign(Cross(a, b, d)) < 0
       /\ Sign(Cross(c, d, a)) * Sign(Cross(c, d, b)) < 0
    \/ OnSegment(a, b, c) \/ OnSegment(a, b, d)
    \/ OnSegment(c, d, a) \/ OnSegment(c, d, b)

\* The segments a b and c d cross at a single point interior to both.
SegmentsCross(a, b, c, d) ==
    /\ Sign(Cross(a, b, c)) * Sign(Cross(a, b, d)) < 0
    /\ Sign(Cross(c, d, a)) * Sign(Cross(c, d, b)) < 0

\* Edge i (1-based) of the closed polyline runs from points[i] to the next
\* point cyclically.
EdgeFrom(points, i) == points[i]
EdgeTo(points, i) == points[(i % Len(points)) + 1]
AdjacentEdges(n, i, j) == j = i + 1 \/ i = j + 1 \/ (i = 1 /\ j = n) \/ (j = 1 /\ i = n)

\* A simple closed polygon: distinct vertices, non-adjacent edges disjoint,
\* adjacent edges meeting only in their common vertex.  Its area is not zero.
SimplePolygon(points) ==
    LET n == Len(points)
    IN  /\ n >= 3
        /\ \A i, j \in 1..n : i < j => points[i] # points[j]
        /\ \A i, j \in 1..n :
              i < j =>
                IF AdjacentEdges(n, i, j)
                THEN /\ ~OnSegment(EdgeFrom(points, i), EdgeTo(points, i),
                                   IF EdgeTo(points, i) = EdgeFrom(points, j)
                                   THEN EdgeTo(points, j) ELSE EdgeFrom(points, j))
                     /\ ~OnSegment(EdgeFrom(points, j), EdgeTo(points, j),
                                   IF EdgeTo(points, i) = EdgeFrom(points, j)
                                   THEN EdgeFrom(points, i) ELSE EdgeTo(points, i))
                ELSE ~SegmentsMeet(EdgeFrom(points, i), EdgeTo(points, i),
                                   EdgeFrom(points, j), EdgeTo(points, j))

\* Even-odd containment of a point that is not on the polygon's boundary.
InsidePolygon(p, points) ==
    LET n == Len(points)
        hits == {i \in 1..n :
                    LET a == EdgeFrom(points, i)
                        b == EdgeTo(points, i)
                    IN  /\ RLt(p.y, a.y) # RLt(p.y, b.y)
                        /\ Sign(Cross(a, b, p)) * Sign(RSub(b.y, a.y)) > 0}
    IN  Cardinality(hits) % 2 = 1

MidPoint(a, b) == Point(RDiv(RAdd(a.x, b.x), I(2)), RDiv(RAdd(a.y, b.y), I(2)))

\* A point next to the middle of edge i, on the side its offset segment lies on:
\* 1/64 of the way from the edge's middle to the segment's middle.  On the
\* model's grid no other edge comes that close to the middle of an edge.
SideProbe(points, seg, i) ==
    LET m == MidPoint(EdgeFrom(points, i), EdgeTo(points, i))
        o == MidPoint(seg.start, seg.end)
    IN  Point(RAdd(m.x, RMul(RSub(o.x, m.x), R(1, 64))),
              RAdd(m.y, RMul(RSub(o.y, m.y), R(1, 64))))

(***************************************************************************)
(* Claims about offsetVectorPath and reducePoints (SpecPath)               *)
(***************************************************************************)
OffsetDone == geomCall.fn = "offsetVectorPath" /\ geomResult # <<>>
ReduceDone == geomCall.fn = "reducePoints" /\ geomResult # <<>>
Ret == geomResult[1].ret
Locals == geomResult[1].locals[1]
HasLocals == geomResult[1].locals # <<>>

Square10 == <<Pt(0, 0), Pt(10, 0), Pt(10, 10), Pt(0, 10)>>
Square10Reversed == <<Pt(0, 0), Pt(0, 10), Pt(10, 10), Pt(10, 0)>>

\* C5 (as claimed): for the points (0,0), (10,0), (10,10), (0,10) the winding
\* computation of offsetVectorPath yields isClockwise = true.
C5_SquareIsClockwise ==
    (OffsetDone /\ HasLocals /\ geomCall.path.points = Square10)
        => Locals.isClockwise = TRUE

\* The four corners of an axis-parallel rectangle, in cyclic order.
IsRectangle(points) ==
    /\ Len(points) = 4
    /\ SimplePolygon(points)
    /\ \A i \in 1..4 : \/ EdgeFrom(points, i).x = EdgeTo(points, i).x
                       \/ EdgeFrom(points, i).y = EdgeTo(points, i).y

\* Vertex v of a rectangle moved away from the rectangle's centre by d along
\* both axes.
OutwardCorner(points, v, d) ==
    LET sx == RSum([i \in 1..4 |-> points[i].x])
        sy == RSum([i \in 1..4 |-> points[i].y])
    IN  Point(RAdd(v.x, RMul(d, I(Sign(RSub(RMul(I(4), v.x), sx))))),
              RAdd(v.y, RMul(d, I(Sign(RSub(RMul(I(4), v.y), sy))))))

\* C6: offsetting a closed axis-parallel rectangle (the square (0,0), (10,0),
\* (10,10), (0,10) with distance 2 among them) by a positive distance d gives,
\* before smoothing, after each segment start the mitre point of the next
\* corner: that corner moved outward by exactly d along both axes.
C6_SquareMitreCorners ==
    (OffsetDone /\ IsRectangle(geomCall.path.points) /\ RLt(RZero, geomCall.arg))
        => /\ HasLocals
           /\ Len(Locals.offsetPoints) = 8
           /\ \A i \in 1..4 :
                 Locals.offsetPoints[2 * i] =
                     OutwardCorner(geomCall.path.points, EdgeTo(geomCall.path.points, i),
                                   geomCall.arg)

C6_Witness ==
    /\ OffsetDone
    /\ geomCall.path.points = Square10
    /\ geomCall.path.closed
    /\ geomCall.arg = I(2)
    /\ Locals.offsetPoints[2] = Pt(12, -2)
    /\ Locals.offsetPoints[4] = Pt(12, 12)
    /\ Locals.offsetPoints[6] = Pt(-2, 12)
    /\ Locals.offsetPoints[8] = Pt(-2, -2)

\* C7: for a simple closed polygon of non-zero area, in either vertex order,
\* every edge's offset segment lies on the exterior side of the edge when the
\* distance is positive and on the interior side when it is negative.
C7_OffsetSideIndependentOfWinding ==
    (OffsetDone /\ SimplePolygon(geomCall.path.points) /\ geomCall.arg # RZero)
        => /\ HasLocals
           /\ Len(Locals.offsetSegments) = Len(geomCall.path.points)
           /\ \A i \in 1..Len(geomCall.path.points) :
                 InsidePolygon(SideProbe(geomCall.path.points, Locals.offsetSegments[i], i),
                               geomCall.path.points)
                     = RLt(geomCall.arg, RZero)

\* A polygon the code takes for clockwise, offset by a positive distance: the
\* segment of its first edge, from (0,0) to (0,10), lies at x = -2, outside.
C7_Witness ==
    /\ OffsetDone
    /\ geomCall.path.points = Square10Reversed
    /\ geomCall.arg = I(2)
    /\ Locals.isClockwise
    /\ Locals.offsetSegments[1] = [start |-> Pt(-2, 0), end |-> Pt(-2, 10)]

\* C8: offsetVectorPath(path, 0) returns the input path, point for point, for
\* every path (any number of points, any winding).
C8_ZeroOffsetIsIdentity ==
    (OffsetDone /\ geomCall.arg = RZero) => Ret = geomCall.path

C8_Witness ==
    /\ OffsetDone
    /\ geomCall.arg = RZero
    /\ SimplePolygon(geomCall.path.points)
    /\ Ret = geomCall.path

\* C9: for a path with fewer than 3 points, offsetVectorPath (any distance)
\* and reducePoints (any tolerance) return the input path unchanged.
C9_ShortPathIsIdentity ==
    ((OffsetDone \/ ReduceDone) /\ Len(geomCall.path.points) < 3) => Ret = geomCall.path

C9_Witness ==
    /\ OffsetDone
    /\ Len(geomCall.path.points) = 2
    /\ geomCall.path.points[1] # geomCall.path.points[2]
    /\ geomCall.arg = I(2)
    /\ Ret = geomCall.path

FarApart(points, t) ==
    \A k \in 1..(Len(points) - 1) : SqrtGe(DistSq(points[k], points[k + 1]), t)

\* The points the walk and the seam test of reducePoints leave of a path of 3
\* points or more.
KeptPoints(path, t) ==
    ReduceSeam(path.closed, ReduceWalk(<<path.points[1]>>, Tail(path.points), t), t)

\* The reduction is rejected: the path has 3 points or more and fewer than 3
\* would be left.
Rejected(path, t) == Len(path.points) >= 3 /\ Len(KeptPoints(path, t)) < 3

\* C11 (as claimed): in the output of reducePoints no two consecutive points
\* are closer than the tolerance, unless the reduction was rejected to keep the
\* 3-point minimum and the original path was returned.
C11_FarApartUnlessRejected ==
    ReduceDone
        => \/ FarApart(Ret.points, geomCall.arg)
           \/ Rejected(geomCall.path, geomCall.arg) /\ Ret = geomCall.path

\* C11 (amended): in the output of reducePoints no two consecutive points are
\* closer than the tolerance, unless the original path was returned because it
\* has 2 points or fewer or because the reduction was rejected to keep the
\* 3-point minimum.
C11_FarApartUnlessShortOrRejected ==
    ReduceDone
        => \/ FarApart(Ret.points, geomCall.arg)
           \/ /\ Ret = geomCall.path
              /\ \/ Len(geomCall.path.points) <= 2
                 \/ Rejected(geomCall.path, geomCall.arg)

\* A path of 4 points with two of them closer than the tolerance 7, reduced to
\* 3 points that are far apart.
C11_Witness ==
    /\ ReduceDone
    /\ geomCall.arg = I(7)
    /\ Len(geomCall.path.points) = 4
    /\ ~FarApart(geomCall.path.points, geomCall.arg)
    /\ Len(Ret.points) = 3
    /\ FarApart(Ret.points, geomCall.arg)

RECURSIVE IsSubsequence(_, _)
IsSubsequence(sub, seq) ==
    IF sub = <<>> THEN TRUE
    ELSE IF seq = <<>> THEN FALSE
    ELSE IF Head(sub) = Head(seq) THEN IsSubsequence(Tail(sub), Tail(seq))
    ELSE IsSubsequence(sub, Tail(seq))

\* C12: the output points of reducePoints are a subsequence of the input
\* points, in the input's order, that starts with the input's first point; the
\* output is no longer than the input.
C12_OutputIsSubsequence ==
    ReduceDone
        => /\ IsSubsequence(Ret.points, geomCall.path.points)
           /\ geomCall.path.points # <<>> =>
                  /\ Ret.points # <<>>
                  /\ Ret.points[1] = geomCall.path.points[1]
           /\ Len(Ret.points) <= Len(geomCall.path.points)

\* A closed path of 4 points that ends where it starts, reduced to its first
\* 3 points by the seam test.
C12_Witness ==
    /\ ReduceDone
    /\ geomCall.path.closed
    /\ Len(geomCall.path.points) = 4
    /\ geomCall.path.points[4] = geomCall.path.points[1]
    /\ Ret.points = SubSeq(geomCall.path.points, 1, 3)

\* C13: for a path of 3 points or more, reducePoints returns a path of 3
\* points or more; when the walk and the seam test leave fewer than 3 points,
\* it returns the original path.
C13_AtLeastThreePoints ==
    (ReduceDone /\ Len(geomCall.path.points) >= 3)
        => /\ Len(Ret.points) >= 3
           /\ Rejected(geomCall.path, geomCall.arg) => Ret = geomCall.path

\* A path of 4 points of which the tolerance 7 leaves 2, returned as it was.
C13_Witness ==
    /\ ReduceDone
    /\ geomCall.arg = I(7)
    /\ Len(geomCall.path.points) = 4
    /\ Rejected(geomCall.path, geomCall.arg)
    /\ ~FarApart(geomCall.path.points, geomCall.arg)
    /\ Ret = geomCall.path

\* C17 (as claimed): for a path whose signed area is exactly 0, the offset
\* engine takes the winding for clockwise: direction = +1.
C17_FlatPathIsClockwise ==
    (OffsetDone /\ HasLocals /\ Locals.signedArea = RZero) => Locals.direction = 1

\* C17 (amended): for a path whose signed area is exactly 0, the offset engine
\* takes the winding for counter-clockwise: isClockwise is false and
\* direction = -1.
C17_FlatPathIsCounterClockwise ==
    (OffsetDone /\ HasLocals /\ Locals.signedArea = RZero)
        => /\ Locals.isClockwise = FALSE
           /\ Locals.direction = -1

\* Three points in a row on the x axis, offset by 2: the segment of the first
\* edge, which runs in the direction of x, is moved by direction * 2 along y.
C17_Witness ==
    /\ OffsetDone
    /\ HasLocals
    /\ geomCall.path.points = <<Pt(0, 0), Pt(6, 0), Pt(10, 0)>>
    /\ geomCall.arg = I(2)
    /\ Locals.signedArea = RZero
    /\ Locals.direction = -1
    /\ Locals.offsetSegments[1] = [start |-> Pt(0, -2), end |-> Pt(6, -2)]

\* C18: offsetVectorPath is pure: the path it returns has the id and the
\* closed flag of its input, and the call leaves the input path (its id, its
\* flag and every coordinate of its points) and the state of the page and of
\* the canvas as they were.
C18_OffsetIsPure ==
    /\ [](OffsetDone => /\ Ret.id = geomCall.path.id
                        /\ Ret.closed = geomCall.path.closed)
    /\ [][geomCall.fn = "offsetVectorPath"
            => UNCHANGED <<geomCall, pageVars, canvasVars>>]_vars

\* An open path of 4 points offset by -5: the result has new points, the id
\* and the flag of the input, and the input still has its points.
C18_Witness ==
    /\ OffsetDone
    /\ HasLocals
    /\ geomCall.arg = I(-5)
    /\ ~geomCall.path.closed
    /\ geomCall.path.points = Square10
    /\ Ret.points # Square10
    /\ Ret.id = PathId
    /\ Ret.closed = FALSE

\* The join of two consecutive offset segments when the mitre point is accepted
\* within `bound` of `vertex`, and the arc around `vertex` is used otherwise.
JoinAround(seg, nextSeg, vertex, radius, bound) ==
    LET mitre == lineIntersection(seg.start, seg.end, nextSeg.start, nextSeg.end)
    IN  IF mitre # <<>> /\ RLe(DistSq(mitre[1], vertex), RSq(bound))
        THEN mitre
        ELSE createArcJoin(seg.end, nextSeg.start, vertex, radius)

\* The offset points that follow from joining every segment with the next one
\* around the vertex vertexOf[i], within `bound`.
JoinedAround(segs, vertexOf, radius, bound) ==
    Flatten([i \in 1..Len(segs) |->
                <<segs[i].start>> \o JoinAround(segs[i], segs[(i % Len(segs)) + 1],
                                                vertexOf[i], radius, bound)])

\* The edges of a path that are not degenerate, in order (an edge is named by
\* the index of its first point).
ProperEdges(points) ==
    SelectSeq([i \in 1..Len(points) |-> i],
              LAMBDA i : points[i] # points[(i % Len(points)) + 1])

\* C21 (as claimed): in offsetVectorPath, for positive and negative distances
\* alike, the mitre point of two consecutive offset segments is the corner
\* exactly when it lies within 3 * |distance| of the original shared vertex,
\* and an arc join is used otherwise (stated for paths without degenerate
\* edges, where segment i comes from edge i).
C21_MitreWithinThreeTimesDistance ==
    (OffsetDone /\ HasLocals /\ ProperEdges(geomCall.path.points)
                                   = [i \in 1..Len(geomCall.path.points) |-> i])
        => Locals.offsetPoints =
               JoinedAround(Locals.offsetSegments,
                            [i \in 1..Len(geomCall.path.points) |->
                                EdgeTo(geomCall.path.points, i)],
                            geomCall.arg, RMul(I(3), RAbs(geomCall.arg)))

\* C22 (as claimed): the vertex of the mitre bound and the centre of the arc
\* join of two consecutive offset segments is the end point of the edge that
\* produced the first of them, also when degenerate edges were skipped
\* (stated for positive distances).
C22_JoinAroundSharedVertex ==
    (OffsetDone /\ HasLocals /\ RLt(RZero, geomCall.arg))
        => LET edges == ProperEdges(geomCall.path.points)
           IN  Locals.offsetPoints =
                   JoinedAround(Locals.offsetSegments,
                                [i \in 1..Len(edges) |->
                                    EdgeTo(geomCall.path.points, edges[i])],
                                geomCall.arg, RMul(I(3), geomCall.arg))

\* C24 (as claimed): for a closed path and tolerance t, when reducePoints
\* accepts the reduction (it returns the kept points, not the original path),
\* the last output point is at least t away from the first output point.
C24_NoNearDuplicateSeam ==
    (ReduceDone /\ geomCall.path.closed /\ ~Rejected(geomCall.path, geomCall.arg)
                /\ Len(geomCall.path.points) > 2)
        => RLe(RSq(geomCall.arg), DistSq(Ret.points[Len(Ret.points)], Ret.points[1]))

ArcDone == geomCall.fn = "createArcJoin" /\ geomResult # <<>>

\* The directions from the centre of the arc to its two ends.
ArcFrom == ArcDir(geomCall.end1, geomCall.center)
ArcTo == ArcDir(geomCall.start2, geomCall.center)

\* max(2, ceil(|delta| * 3)) for the angle delta between the two directions.
ArcSteps ==
    IF CeilAngleTimes3(ArcFrom, ArcTo) > 2 THEN CeilAngleTimes3(ArcFrom, ArcTo) ELSE 2

QuarterTurn == ArcFrom = Pt(5, 0) /\ ArcTo = Pt(0, 5)
HalfTurn == ArcFrom = Pt(5, 0) /\ ArcTo = Pt(-5, 0)

\* C23 (as claimed): when the angle between the two ends is at least 0.1 rad,
\* createArcJoin emits exactly max(2, ceil(|delta| * 3)) points; when it is
\* below 0.1 rad, it emits a single point.
C23_ArcHasStepsPoints ==
    ArcDone => Len(Ret) = IF CosGe(ArcFrom, ArcTo, CosTenth) THEN 1 ELSE ArcSteps

\* C23 (amended): when the angle is at least 0.1 rad, createArcJoin emits
\* exactly max(2, ceil(|delta| * 3)) - 1 points, those strictly between the
\* two ends (4 for a quarter turn, 9 for a half turn); below 0.1 rad it emits
\* the single point end1.
C23_ArcHasStepsMinusOnePoints ==
    ArcDone => /\ Len(Ret) = IF CosGe(ArcFrom, ArcTo, CosTenth) THEN 1 ELSE ArcSteps - 1
               /\ CosGe(ArcFrom, ArcTo, CosTenth) => Ret = <<geomCall.end1>>
               /\ QuarterTurn => Len(Ret) = 4
               /\ HalfTurn => Len(Ret) = 9

C23_Witness ==
    /\ ArcDone
    /\ QuarterTurn
    /\ Len(Ret) = 4
    /\ Ret[4].arc.i = 4
    /\ Ret[4].arc.steps = 5

(***************************************************************************)
(* Claims about findSelfIntersections and the hit test (SpecHit)           *)
(***************************************************************************)
IntersectDone == geomCall.fn = "findSelfIntersections" /\ geomResult # <<>>
HitDone == geomCall.fn = "checkPointInContourAndLoops" /\ geomResult # <<>>

FigureEight == <<Pt(0, 0), Pt(10, 10), Pt(10, 0), Pt(0, 10)>>

\* C3 (as claimed): for a closed polyline given without a repeated first point,
\* findSelfIntersections records an intersection for every pair of non-adjacent
\* edges, the closing edge included, whose segments cross; for the figure-eight
\* (0,0), (10,10), (10,0), (0,10) one is recorded at (5,5).
C3_AllCrossingsRecorded ==
    (IntersectDone /\ geomCall.path.points[1] # geomCall.path.points[Len(geomCall.path.points)])
        => LET points == geomCall.path.points
               n == Len(points)
           IN  /\ \A i, j \in 1..n :
                     (i < j /\ ~AdjacentEdges(n, i, j)
                      /\ SegmentsCross(EdgeFrom(points, i), EdgeTo(points, i),
                                       EdgeFrom(points, j), EdgeTo(points, j)))
                        => \E r \in geomResult[1] : r.seg1 = i - 1 /\ r.seg2 = j - 1
               /\ points = FigureEight
                     => \E r \in geomResult[1] : r.x = I(5) /\ r.y = I(5)

\* Strictly inside the triangle a b c.
InTriangle(p, a, b, c) ==
    LET s1 == Sign(Cross(a, b, p))
        s2 == Sign(Cross(b, c, p))
        s3 == Sign(Cross(c, a, p))
    IN  s1 # 0 /\ s1 = s2 /\ s2 = s3

\* The lobes of the figure-eight: the triangles between its crossing point
\* (5,5) and its sides x = 10 and x = 0.
InFigureEightLobe(p) ==
    \/ InTriangle(p, Pt(5, 5), Pt(10, 10), Pt(10, 0))
    \/ InTriangle(p, Pt(0, 0), Pt(5, 5), Pt(0, 10))

\* C4 (as claimed): for the figure-eight under the identity render transform, a
\* point strictly inside either lobe is reported with inLoop = true.
C4_LobePointInLoop ==
    (HitDone /\ geomCall.path.points = FigureEight /\ geomCall.layer = IdentityLayer
     /\ InFigureEightLobe(geomCall.point))
        => geomResult[1].inLoop = TRUE

(***************************************************************************)
(* Claims about the consolidation gesture (Spec)                           *)
(***************************************************************************)
\* The contours of a cut layer in their offset form: each stored contour
\* moved by the layer's offset, converted from millimetres to image pixels
\* (72 points an inch, times the pixels of the image per sheet unit).
OffsetForm(layer) ==
    [k \in 1..Len(layer.vectorPaths) |->
        offsetVectorPath(layer.vectorPaths[k],
                         RMul(RMul(layer.offset, R(720, 254)),
                              RDiv(layer.naturalWidth, layer.width)))]

Untouched(paths, touched) ==
    LET rest == SelectSeq([k \in 1..Len(paths) |-> k - 1],
                          LAMBDA index : \A m \in 1..Len(touched) : touched[m] # index)
    IN  [m \in 1..Len(rest) |-> paths[rest[m] + 1]]

CutLayerSelected ==
    /\ selectedLayerId # NoLayer
    /\ HasLayer(layers, selectedLayerId)
    /\ FindLayer(layers, selectedLayerId).type = "cut"

\* The step of a pointer release that ends a stroke of the shape tool.
StrokeReleased == isShapeBuilding /\ ~isShapeBuilding'

\* C1: when the shape tool is armed and exactly 2 contours of the selected cut
\* layer were touched during the stroke, the release calls unite exactly once,
\* with those 2 contours in their offset form; when the call returns, the
\* layer's contour list is the untouched contours (in their offset form)
\* followed by what the call returned, and the layer's offset is 0.
C1_ReleaseUnitesTouchedPair ==
    [][(StrokeReleased /\ isShapeToolActive /\ CutLayerSelected
            /\ Len(highlightedContours) = 2)
        => LET before == FindLayer(layers, selectedLayerId)
               after == FindLayer(layers', selectedLayerId)
               shown == OffsetForm(before)
           IN  /\ Len(uniteCalls') = 1
               /\ uniteCalls'[1].paths = <<shown[highlightedContours[1] + 1],
                                           shown[highlightedContours[2] + 1]>>
               /\ ~uniteCalls'[1].thrown =>
                      /\ after.vectorPaths = Untouched(shown, highlightedContours)
                                                 \o uniteCalls'[1].ret
                      /\ after.offset = RZero]_vars

\* A stroke on a layer with a non-zero offset has touched 2 of its 3 contours
\* and has been released; unite has returned a merged contour, which now
\* follows the untouched contour in the layer, and the offset is 0.
C1_Witness ==
    /\ ~isShapeBuilding
    /\ isShapeToolActive
    /\ CutLayerSelected
    /\ Len(uniteCalls) = 1
    /\ Len(uniteCalls[1].paths) = 2
    /\ ~uniteCalls[1].thrown
    /\ Len(uniteCalls[1].ret) = 1
    /\ uniteCalls[1].layerOffset # RZero
    /\ FindLayer(layers, selectedLayerId).offset = RZero
    /\ Len(FindLayer(layers, selectedLayerId).vectorPaths) = 2
    /\ FindLayer(layers, selectedLayerId).vectorPaths[2] = uniteCalls[1].ret[1]

\* C2 (as claimed): when the call of unite made by a release fails (it throws,
\* or it returns the empty list), the layers are what they were: every contour
\* is still in the layer's list and the layer's offset is unchanged.
C2_FailedUniteIsNoOp ==
    [][(StrokeReleased /\ uniteCalls' # <<>>
            /\ (uniteCalls'[1].thrown \/ uniteCalls'[1].ret = <<>>))
        => layers' = layers]_vars

\* C14: when 1 contour or none was touched during a stroke, the release leaves
\* the layers as they are (the contour list and the offset of the layer
\* included) and makes no call of unite.
C14_FewerThanTwoTouchedIsDiscarded ==
    [][(StrokeReleased /\ Len(highlightedContours) <= 1)
        => /\ layers' = layers
           /\ uniteCalls' = <<>>]_vars

\* A stroke of 2 points or more on a selected cut layer of 3 contours has
\* touched exactly 1 of them and has just been released: no call of unite, the
\* layer still has its 3 contours.
C14_Witness ==
    /\ lastRelease # <<>>
    /\ Len(lastRelease[1].touched) = 1
    /\ Len(lastRelease[1].path) >= 2
    /\ uniteCalls = <<>>
    /\ CutLayerSelected
    /\ Len(FindLayer(layers, selectedLayerId).vectorPaths) = 3

\* A step that releases a pointer button.
PointerUp == buttons' # buttons /\ buttons' \subseteq buttons

\* The gesture state Idle.
Idle == ~isShapeBuilding /\ shapeBuildPath = <<>> /\ highlightedContours = <<>>

\* C15: a pointer release during a stroke always ends it: after the release,
\* whether contours were merged or the stroke was discarded, the canvas is not
\* building, the stroke path is empty and the touched set is empty.
C15_ReleaseAlwaysReturnsToIdle ==
    [][(isShapeBuilding /\ PointerUp) => Idle']_vars

\* A stroke that had touched 2 contours has just been released and merged, and
\* the gesture state is Idle.
C15_Witness ==
    /\ lastRelease # <<>>
    /\ Len(lastRelease[1].touched) = 2
    /\ Len(uniteCalls) = 1
    /\ Idle

\* The indices a sequence holds.
Indices(seq) == {seq[m] : m \in 1..Len(seq)}

\* The 0-based indices of the contours of the selected cut layer that a sample
\* hits: the sample lies in the main shape or in a loop of the contour in its
\* offset form.  No index when the selected layer is not a cut layer.
HitAt(sample) ==
    IF ~CutLayerSelected THEN {}
    ELSE LET layer == FindLayer(layers, selectedLayerId)
             shown == OffsetForm(layer)
         IN  {k - 1 : k \in {j \in 1..Len(shown) :
                 \/ checkPointInContourAndLoops(sample, shown[j], layer).inMainShape
                 \/ checkPointInContourAndLoops(sample, shown[j], layer).inLoop}}

\* C16: during a stroke the touched set is the union, over the pointer-move
\* samples so far (the points of the stroke path after the press), of the
\* contour indices hit at the sample; and from one step of the stroke to the
\* next the touched set keeps every index it has.
C16_TouchedSetIsUnionOfHits ==
    /\ [](isShapeBuilding =>
            Indices(highlightedContours)
                = UNION {HitAt(shapeBuildPath[k]) : k \in 2..Len(shapeBuildPath)})
    /\ [][(isShapeBuilding /\ isShapeBuilding')
            => Indices(highlightedContours) \subseteq Indices(highlightedContours')]_vars

\* A stroke whose first sample hit contour 0 and whose second sample hits
\* nothing: contour 0 is still the touched set.
C16_Witness ==
    /\ isShapeBuilding
    /\ Len(shapeBuildPath) = 3
    /\ HitAt(shapeBuildPath[2]) = {0}
    /\ HitAt(shapeBuildPath[3]) = {}
    /\ highlightedContours = <<0>>

\* C25: after a consolidation on a layer with a non-zero offset (unite was
\* called and returned), the offset of the layer is 0, and the contours drawn
\* for the layer start with the untouched contours in the form in which they
\* were hit-tested before the merge: their offset versions.
C25_UntouchedContoursKeepOffsetForm ==
    [][(StrokeReleased /\ CutLayerSelected
            /\ FindLayer(layers, selectedLayerId).offset # RZero
            /\ Len(uniteCalls') = 1 /\ ~uniteCalls'[1].thrown)
        => LET before == FindLayer(layers, selectedLayerId)
               after == FindLayer(layers', selectedLayerId)
               rest == Untouched(PathsToCheck(before), highlightedContours)
           IN  /\ after.offset = RZero
               /\ Len(after.vectorPaths) >= Len(rest)
               /\ SubSeq(PathsToRender(after), 1, Len(rest)) = rest
               /\ rest = Untouched(OffsetForm(before), highlightedContours)]_vars

\* A stroke on a layer with a non-zero offset has touched 2 of the 3 contours
\* and has been released, unite has returned, and the first contour of the
\* layer is the untouched one, which is none of the traced contours.
C25_Witness ==
    /\ lastRelease # <<>>
    /\ Len(lastRelease[1].touched) = 2
    /\ CutLayerSelected
    /\ Len(uniteCalls) = 1
    /\ ~uniteCalls[1].thrown
    /\ uniteCalls[1].layerOffset # RZero
    /\ FindLayer(layers, selectedLayerId).offset = RZero
    /\ Len(FindLayer(layers, selectedLayerId).vectorPaths) >= 1
    /\ FindLayer(layers, selectedLayerId).vectorPaths[1].id \in {LeftSquare.id, RightSquare.id, MiddleBox.id}
    /\ FindLayer(layers, selectedLayerId).vectorPaths[1]
           \notin {LeftSquare, RightSquare, MiddleBox}

\* The step of a pointer press that starts a stroke of the shape tool.
StrokeStarted == ~isShapeBuilding /\ isShapeBuilding'

\* C26: a press that starts a stroke sets the stroke path to the press point
\* alone and the touched set to empty; and the contours a release hands to
\* unite are those of the indices hit by the samples of the stroke that is
\* released, so that nothing touched in an earlier stroke is merged.
C26_StrokeStartsFromPressPointOnly ==
    /\ [][StrokeStarted
            => /\ Len(shapeBuildPath') = 1
               /\ shapeBuildPath'[1] \in PressPoints
               /\ highlightedContours' = <<>>
               /\ uniteCalls' = <<>>]_vars
    /\ [][(StrokeReleased /\ uniteCalls' # <<>>)
            => LET hit == UNION {HitAt(shapeBuildPath[k]) : k \in 2..Len(shapeBuildPath)}
                   shown == OffsetForm(FindLayer(layers, selectedLayerId))
               IN  {uniteCalls'[1].paths[m] : m \in 1..Len(uniteCalls'[1].paths)}
                       = {shown[index + 1] : index \in hit}]_vars

\* A second stroke on a layer from which the release of an earlier stroke has
\* taken 2 of the 3 traced contours (the earlier stroke touched them): its
\* touched set is contour 0 alone, hit by its own sample.
C26_Witness ==
    /\ isShapeBuilding
    /\ Len(shapeBuildPath) = 2
    /\ highlightedContours = <<0>>
    /\ HitAt(shapeBuildPath[2]) = {0}
    /\ CutLayerSelected
    /\ Len(FindLayer(layers, selectedLayerId).vectorPaths) = 1

\* The press is one that pans: the middle button, or the left button with ctrl.
PanPress(e) == e.button = 1 \/ (e.button = 0 /\ e.ctrlKey)

\* C27: a middle-button or ctrl+left press always starts panning and never a
\* stroke of the shape tool; any other left press while the shape tool is
\* armed always starts a stroke at the press point and changes neither the
\* selection nor the drag, resize and rotate modes.
C27_PressDispatchPriority ==
    [][\A e \in PressEvents :
          handleMouseDown(e.button, e.ctrlKey, e.shiftKey, e.sheet)
              => /\ PanPress(e)
                     => /\ isDragging'
                        /\ isShapeBuilding' = isShapeBuilding
                        /\ shapeBuildPath' = shapeBuildPath
                 /\ (~PanPress(e) /\ e.button = 0 /\ isShapeToolActive)
                     => /\ isShapeBuilding'
                        /\ shapeBuildPath' = <<e.sheet>>
                        /\ UNCHANGED <<selectedLayerId, selectionState, isDragging,
                                       isDraggingLayer, isResizing, isRotating,
                                       resizeHandle>>]_vars

\* The left button is down, with ctrl, while the shape tool is armed: the
\* canvas pans and no stroke has started.
C27_Witness ==
    /\ buttons = {0}
    /\ isShapeToolActive
    /\ isDragging
    /\ ~isShapeBuilding
    /\ shapeBuildPath = <<>>

\* The interaction modes of the canvas that are active.
ActiveModes ==
    {mode \in {"panning", "building", "dragging", "resizing", "rotating"} :
        \/ mode = "panning" /\ isDragging
        \/ mode = "building" /\ isShapeBuilding
        \/ mode = "dragging" /\ isDraggingLayer
        \/ mode = "resizing" /\ isResizing
        \/ mode = "rotating" /\ isRotating}

\* C28 (as claimed): after any sequence of pointer presses, moves and releases
\* (any buttons), at most one of the modes panning, shape building, layer
\* dragging, resizing and rotating is active.
C28_AtMostOneModeActive == Cardinality(ActiveModes) <= 1

(***************************************************************************)
(* Claims about the layer list and the selection (SpecPage)                *)
(***************************************************************************)
\* C29 (as claimed): after any sequence of image drops, layer deletions,
\* outline generations, registration-mark additions and moves up and down, no
\* two layers of the layer list have the same zIndex.
C29_ZIndicesDistinct ==
    \A i, j \in 1..Len(layers) : i # j => layers[i].zIndex # layers[j].zIndex

\* C30 (as claimed): after any sequence of layer additions, selections,
\* deletions, canvas selection changes, outline generations and project
\* loads, selectedLayerId is null or the id of a layer of the layer list.
C30_SelectedLayerExists ==
    selectedLayerId = NoLayer \/ HasLayer(layers, selectedLayerId)

(***************************************************************************)
(* Claims about the forms of a cut layer's contours (SpecForms)            *)
(***************************************************************************)
\* C19 (as claimed): for a cut layer with a non-zero offset, the contours that
\* are hit-tested and the contours that are handed to unite have the points of
\* the contours that are drawn.
C19_SameFormsDrawnTestedAndUnited ==
    (geomCall.fn = "contourForms" /\ geomCall.layer.offset # RZero)
        => \A i, j \in 1..Len(geomResult) :
               (geomResult[i].by # "exportToSVG" /\ geomResult[j].by # "exportToSVG")
                   => geomResult[i].paths = geomResult[j].paths

\* A point of a contour in the units of the layer.
ScaleToLayer(p, layer) ==
    IF IsNum(p)
    THEN Point(RMul(RDiv(p.x, layer.naturalWidth), layer.width),
               RMul(RDiv(p.y, layer.naturalHeight), layer.height))
    ELSE [scaled |-> p]

\* C20 (as claimed): the SVG export of a cut layer with a non-zero offset
\* emits the offset contours: the points of each exported path are the points
\* of the layer's contour after the offset has been applied, in the units of
\* the layer.
C20_ExportEmitsOffsetContours ==
    (geomCall.fn = "contourForms" /\ geomCall.layer.offset # RZero)
        => \A i \in 1..Len(geomResult) :
               geomResult[i].by = "exportToSVG"
                   => /\ Len(geomResult[i].groups) = 1
                      /\ LET shown == OffsetForm(geomCall.layer)
                             paths == geomResult[i].groups[1].paths
                         IN  /\ Len(paths) = Len(shown)
                             /\ \A k \in 1..Len(shown) :
                                    paths[k].d =
                                        [n \in 1..Len(shown[k].points) |->
                                            ScaleToLayer(shown[k].points[n], geomCall.layer)]

====
